---------------------------- MODULE Spec2Model ----------------------------
(***************************************************************************)
(* A model of recognify/core: the Viola-Jones detector (integral images,   *)
(* cascade evaluation, scan driver, rectangle merger, disjoint set) and    *)
(* the ObjectTracker facade.                                               *)
(*                                                                         *)
(* Arrays are functions over 0..n-1, as in the JavaScript source.  A read  *)
(* outside an array gives `undefined` there; the model tests Has first.    *)
(* Floating-point values of the source are modelled exactly: every number  *)
(* the model feeds to the code is a dyadic rational or an integer, a       *)
(* rational is a pair <<num, den>> with den > 0, and a comparison against  *)
(* a square root is decided by the signs and the squares.                  *)
(***************************************************************************)
EXTENDS Integers, Sequences, FiniteSets, TLC

VARIABLES
    \* ---- computeIntegralImage / detect: the image and the four tables
    pixels,                 \* RGBA bytes, index 0..len-1
    width, height,
    cur,                    \* linear index i*width+j of the next pixel of the pass
    integralImage, integralImageSquare, tiltedIntegralImage, integralImageSobel,
    \* ---- DisjointSet
    parent,                 \* this.parent
    links,                  \* history: the pairs {i, j} passed to union so far (a pair
                            \* already linked when passed adds nothing and is not kept)
    dsOp,                   \* history: the last call and whether it wrote to parent
    \* ---- mergeRectangles
    rects,                  \* the candidate rectangles, index 0..n-1
    regionsOverlap,         \* <<num, den>>
    merged,                 \* what mergeRectangles(rects, regionsOverlap) returned
    remerged,               \* what mergeRectangles returned on the rectangles of `merged`
    mpc,                    \* "none", "input", "merged", "remerged"
    \* ---- detect: the arguments not listed above, the locals, the return value
    initialScale, scaleFactor, stepSize, edgesDensity,   \* <<num, den>>
    data,                   \* the cascade, index 0..len-1, every value <<num, den>>
    total, scale, blockWidth, blockHeight,
    result,                 \* what the last call returned
    memo,                   \* history: <<>> or the arguments and result of one earlier call
    dpc,                    \* "idle", "scan", "returned", "spinning"
    \* ---- ObjectTracker
    tracker,                \* this: classifiers, edgesDensity, initialScale, scaleFactor, stepSize
    tpc,                    \* "none", "ready" (constructed), "threw" (the constructor threw)
    thrown,                 \* the message of the error the constructor threw, or ""
    emitted,                \* the calls of this.emit, in order
    argument,               \* history: what the constructor was called with
    tracked,                \* history: the frame and the tracker of each call of track
    \* ---- grayscale and sobel called on their own
    littleEndian,           \* the byte order of the platform's typed-array views
    gray,                   \* what grayscale(pixels, width, height, false) returned
    edges,                  \* what sobel(pixels, width, height) returned
    fdone,                  \* which of the two have been called
    \* ---- EventEmitter (one on its own; the tracker; the TrackerTask)
    events_,                \* this.events_ of each emitter
    nextId,                 \* the closures created so far, plus one
    calls,                  \* history: the listeners emit has called, with the emit that called
    emits,                  \* history: the calls of emit, with the listeners at the call
    onces,                  \* history: the handlers that once has registered
    \* ---- TrackerTask
    running_,               \* this.running_
    reemitTrackEvent_,      \* this.reemitTrackEvent_
    \* ---- trackVideo
    timeout,                \* let timeout: the id of the last timer set, 0 while undefined
    timers,                 \* the timers of setTimeout(raf, 0) that are pending
    frames,                 \* the pending callbacks of requestAnimationFrame(raf)
    readyState,             \* whether element.readyState is HAVE_ENOUGH_DATA
    tracks,                 \* history: the calls of tracker.track, with running_ at the call
    epc                     \* "none", "emitter", "task", "page", "video"

varsImage == <<pixels, width, height, cur,
               integralImage, integralImageSquare, tiltedIntegralImage, integralImageSobel>>
varsDS == <<parent, links, dsOp>>
varsMerge == <<rects, regionsOverlap, merged, remerged, mpc>>
varsDetect == <<initialScale, scaleFactor, stepSize, edgesDensity, data, total, scale,
                blockWidth, blockHeight, result, memo, dpc>>
varsTracker == <<tracker, tpc, thrown, emitted, argument, tracked>>
varsFilter == <<littleEndian, gray, edges, fdone>>
varsEvents == <<events_, nextId, calls, emits, onces, running_, reemitTrackEvent_,
                timeout, timers, frames, readyState, tracks, epc>>
vars == <<varsImage, varsDS, varsMerge, varsDetect, varsTracker, varsFilter, varsEvents>>

\* the state of a component no call has touched
IdleImage ==
    /\ pixels = <<>> /\ width = 0 /\ height = 0 /\ cur = 0
    /\ integralImage = <<>> /\ integralImageSquare = <<>>
    /\ tiltedIntegralImage = <<>> /\ integralImageSobel = <<>>
IdleDS == parent = <<>> /\ links = {} /\ dsOp = [op |-> "none", wrote |-> FALSE]
IdleMerge ==
    /\ rects = <<>> /\ regionsOverlap = <<1, 2>> /\ merged = <<>> /\ remerged = <<>>
    /\ mpc = "none"
IdleDetect ==
    /\ initialScale = <<1, 1>> /\ scaleFactor = <<1, 1>> /\ stepSize = <<1, 1>>
    /\ edgesDensity = <<0, 1>> /\ data = <<>> /\ total = 0 /\ scale = <<1, 1>>
    /\ blockWidth = 0 /\ blockHeight = 0 /\ result = <<>> /\ memo = <<>> /\ dpc = "idle"
IdleTracker ==
    /\ tracker = [classifiers |-> <<>>, edgesDensity |-> <<0, 1>>, initialScale |-> <<0, 1>>,
                  scaleFactor |-> <<0, 1>>, stepSize |-> <<0, 1>>]
    /\ tpc = "none" /\ thrown = "" /\ emitted = <<>> /\ tracked = <<>>
    /\ argument = [t |-> "undefined", s |-> "", items |-> <<>>]

IdleFilter == littleEndian = TRUE /\ gray = <<>> /\ edges = <<>> /\ fdone = {}

\* the emitters of the model and the events they are used with
Emitters == {"emitter", "tracker", "task"}
Events == {"x", "newListener", "track", "run", "stop"}
\* this.events_[event] undefined; this.events_ null
NoArray == [has |-> FALSE, arr |-> <<>>]
NoEvents == [set |-> FALSE, of |-> [ev \in Events |-> NoArray]]
\* a listener: a named function, or a closure that once or run has created
Fn(name) == [k |-> "fn", n |-> 0, f |-> name]
NoListener == [k |-> "none", n |-> 0, f |-> ""]

IdleEvents ==
    /\ events_ = [e \in Emitters |-> NoEvents] /\ nextId = 1
    /\ calls = <<>> /\ emits = <<>> /\ onces = <<>>
    /\ running_ = FALSE /\ reemitTrackEvent_ = NoListener
    /\ timeout = 0 /\ timers = {} /\ frames = 0 /\ readyState = FALSE /\ tracks = <<>>
    /\ epc = "none"

\* ------------------------------------------------------------------ bounds
MaxW == 3
MaxH == 3
MaxArea == 6                \* images of the table pass have at most MaxArea pixels
TallH == 257                \* and one of them is a column of TallH pixels
MaxN == 4                   \* largest DisjointSet
MaxRects == 3               \* longest list handed to mergeRectangles directly
Side == 6                   \* detect is called on Side x Side images
MaxScales == 8              \* no call of the model makes more iterations of the while loop
MaxTracks == 2              \* calls of ObjectTracker.track in a behaviour
FilterSide == 3             \* grayscale and sobel are called on images up to FilterSide x FilterSide
MaxTaskOnces == 2           \* calls of once on a TrackerTask
MaxTaskEmits == 7           \* calls of emit before the next call on a TrackerTask
MaxVideoEmits == 10         \* calls of emit before the next step of the frame loop
MaxEmits == 4               \* calls of emit in a behaviour, those of addListener included

\* ----------------------------------------------------------------- helpers
Min(a, b) == IF a <= b THEN a ELSE b
Max(a, b) == IF a >= b THEN a ELSE b

\* whether arr[idx] is an element of the array (it is `undefined` otherwise)
Has(arr, idx) == idx \in DOMAIN arr

\* a table that was not allocated (detect leaves integralImageSobel undefined)
NoTable == <<>>

\* (arr[idx] || 0): undefined and 0 both give 0
OrZero(arr, idx) == IF idx \in DOMAIN arr THEN arr[idx] ELSE 0

Zeros(n) == [k \in 0..(n - 1) |-> 0]

RECURSIVE IsqrtIn(_, _, _)
IsqrtIn(n, lo, hi) ==
    IF lo >= hi THEN lo
    ELSE LET mid == (lo + hi + 1) \div 2
         IN IF mid * mid <= n THEN IsqrtIn(n, mid, hi) ELSE IsqrtIn(n, lo, mid - 1)

\* floor(sqrt(n)), n >= 0
Isqrt(n) == IsqrtIn(n, 0, Min(n, 46340))

\* ------------------------------------------------------------------ pixels
\* The RGB values the model draws images from.
Black  == <<0, 0, 0>>
White  == <<255, 255, 255>>
Gray10 == <<10, 10, 10>>
Gray2  == <<2, 2, 2>>
Gray3  == <<3, 3, 3>>
Warm   == <<200, 100, 50>>
Green2 == <<0, 2, 0>>
Green4 == <<0, 4, 0>>
Green7 == <<0, 7, 0>>

\* Of the values above, the one whose IEEE-754 double sum
\* r*0.299 + g*0.587 + b*0.114 falls one ulp below the exact integer
\* (2*0.299 + 2*0.587 + 2*0.114 evaluates to 1.9999999999999998).
LumaRoundsDown == {Gray2}

\* ~~(r * 0.299 + g * 0.587 + b * 0.114); a missing byte makes the sum NaN
\* and ~~NaN is 0.
Luminance(px, w) ==
    IF ~(Has(px, w) /\ Has(px, w + 1) /\ Has(px, w + 2)) THEN 0
    ELSE LET r == px[w]
             g == px[w + 1]
             b == px[w + 2]
             exact == (299 * r + 587 * g + 114 * b) \div 1000
         IN IF <<r, g, b>> \in LumaRoundsDown THEN exact - 1 ELSE exact

\* The RGBA buffer of a row-major sequence of RGB values (alpha 255).
MkPixels(rgbs) ==
    [k \in 0..(4 * Len(rgbs) - 1) |->
        IF k % 4 = 3 THEN 255 ELSE rgbs[(k \div 4) + 1][(k % 4) + 1]]


\* ------------------------------------------------- grayscale, sobel (Image.js)
\* data32[p] is the 32-bit word of pixel p in the byte order of the platform:
\* on a little-endian one (c >>> 16 & 0xff), (c >>> 8 & 0xff), (c & 0xff) are
\* the bytes at offsets 2, 1, 0 of the pixel, on a big-endian one the bytes at
\* offsets 1, 2, 3.
wordBytes(px, p, le) ==
    IF le THEN <<px[4 * p + 2], px[4 * p + 1], px[4 * p]>>
    ELSE <<px[4 * p + 1], px[4 * p + 2], px[4 * p + 3]>>

\* luma = (... * 13933 + ... * 46871 + ... * 4732) >>> 16
luma(px, p, le) ==
    LET b == wordBytes(px, p, le)
    IN (b[1] * 13933 + b[2] * 46871 + b[3] * 4732) \div 65536

\* len = pixels.length >> 2
lenOf(px) == Cardinality(DOMAIN px) \div 4

\* grayscale(pixels, width, height, false): gray[i++] = luma into a Uint8Array
grayscaleFlat(px, le) == [p \in 0..(lenOf(px) - 1) |-> luma(px, p, le) % 256]

\* grayscale(pixels, width, height, true): luma * 0x10101 | c & 0xff000000 is
\* stored as a 32-bit word and returned as bytes, so the top byte of the word
\* (offset 3 little-endian, offset 0 big-endian) keeps the input byte and the
\* other three hold luma
grayscaleRGBA(px, le) ==
    [k \in 0..(4 * lenOf(px) - 1) |->
       IF k % 4 = (IF le THEN 3 ELSE 0) THEN px[k] ELSE luma(px, k \div 4, le) % 256]

\* channel 0 of the same on a little-endian platform, pixel p
grayscale(px, p) == grayscaleRGBA(px, TRUE)[4 * p]

\* a slip: a sign vector whose entries do not cancel
sobelSignVectorUnbalanced == <<-1, 0, 2>>

sobelSignVector == <<-1, 0, 1>>
sobelScaleVector == <<1, 2, 1>>

\* verticalConvolve, channel 0 at (x, y), kernels of length 3
verticalConvolve(buf, w, h, weights, x, y) ==
    LET at(cy) == buf[(Min(h - 1, Max(0, y + cy - 1)) * w + x) * 4] * weights[cy + 1]
    IN at(0) + at(1) + at(2)

\* separableConvolve: the vertical pass, then horizontalConvolve, channel 0
separableConvolve(buf, w, h, horizWeights, vertWeights, x, y) ==
    LET at(cx) == verticalConvolve(buf, w, h, vertWeights, Min(w - 1, Max(0, x + cx - 1)), y)
                    * horizWeights[cx + 1]
    IN at(0) + at(1) + at(2)

\* sobel: h * h + v * v at (x, y); the source stores its square root
sobelRadicand(px, w, h, x, y, le) ==
    LET buf == grayscaleRGBA(px, le)
        v == separableConvolve(buf, w, h, sobelSignVector, sobelScaleVector, x, y)
        hz == separableConvolve(buf, w, h, sobelScaleVector, sobelSignVector, x, y)
    IN hz * hz + v * v

\* the same on a little-endian platform, as the integral image pass uses it
sobel(px, w, h, x, y) == sobelRadicand(px, w, h, x, y, TRUE)

\* the number sqrt(n)
Sqrt(n) == [sqrt |-> n]

\* sobel(pixels, width, height): p, p, p, 255 for every pixel
sobelOutput(px, w, h, le) ==
    [k \in 0..(w * h * 4 - 1) |->
       IF k % 4 = 3 THEN 255
       ELSE Sqrt(sobelRadicand(px, w, h, (k \div 4) % w, (k \div 4) \div w, le))]

\* ------------------------------------------------ integral images (Image.js)
\* The right-hand sides of the three helpers are double arithmetic and exact;
\* the store into an Int32Array keeps the value modulo 2^32 in
\* [-2^31, 2^31 - 1].  An exact value v is held as <<q, r>> with
\* v = q * 65536 + r and 0 <= r < 65536.
Wide(v) == <<v \div 65536, v % 65536>>

WideAdd(a, b) ==
    LET r == a[2] + b[2]
    IN <<a[1] + b[1] + (r \div 65536), r % 65536>>

WideNeg(a) == IF a[2] = 0 THEN <<-a[1], 0>> ELSE <<-a[1] - 1, 65536 - a[2]>>

WideSub(a, b) == WideAdd(a, WideNeg(b))

\* whether the exact value is one a signed 32-bit cell can hold
InInt32(a) == a[1] \in -32768..32767

\* what an Int32Array cell holds after `cell = v`
ToInt32(a) ==
    LET q == a[1] % 65536
    IN (IF q >= 32768 THEN q - 65536 ELSE q) * 65536 + a[2]

\* v + sqrt(n) truncated toward zero, as the store truncates it
TruncSqrtSum(k, n) ==
    LET s == Isqrt(n)
        t == WideAdd(k, Wide(s))
    IN IF s * s = n \/ t[1] >= 0 THEN t ELSE WideAdd(t, Wide(1))

\* the value computePixelValueSAT_ computes for cell w
satValue(SAT, w_, w, pixel) ==
    WideSub(WideAdd(WideAdd(Wide(OrZero(SAT, w - w_)), Wide(OrZero(SAT, w - 1))), Wide(pixel)),
            Wide(OrZero(SAT, w - w_ - 1)))

\* the same with pixelsSobel[w] = sqrt(n) for pixel
sobelSatValue(SAT, w_, w, n) ==
    TruncSqrtSum(WideSub(WideAdd(Wide(OrZero(SAT, w - w_)), Wide(OrZero(SAT, w - 1))),
                         Wide(OrZero(SAT, w - w_ - 1))), n)

\* the value computePixelValueRSAT_ computes for cell w
rsatValue(RSAT, w_, w, pixel, pixelAbove) ==
    WideAdd(WideSub(WideAdd(Wide(OrZero(RSAT, w - w_ - 1)), Wide(OrZero(RSAT, w - w_ + 1))),
                    Wide(OrZero(RSAT, w - w_ - w_))),
            Wide(pixel + pixelAbove))

computePixelValueSAT_(SAT, w_, i, j, pixel) ==
    LET w == i * w_ + j
    IN [SAT EXCEPT ![w] = ToInt32(satValue(SAT, w_, w, pixel))]

\* the same helper, fed pixelsSobel[w] = sqrt(n)
computePixelValueSobelSAT_(SAT, w_, i, j, n) ==
    LET w == i * w_ + j
    IN [SAT EXCEPT ![w] = ToInt32(sobelSatValue(SAT, w_, w, n))]

computePixelValueRSAT_(RSAT, w_, i, j, pixel, pixelAbove) ==
    LET w == i * w_ + j
    IN [RSAT EXCEPT ![w] = ToInt32(rsatValue(RSAT, w_, w, pixel, pixelAbove))]

\* One iteration (i, j) of the double loop of computeIntegralImage, on the
\* record t of the four tables (sobel is NoTable when that table is not passed).
IntegralPixel(px, w_, h_, t, i, j) ==
    LET w == i * w_ * 4 + j * 4
        pixel == Luminance(px, w)
        pixelAbove == Luminance(px, w - w_ * 4)
    IN [sum    |-> computePixelValueSAT_(t.sum, w_, i, j, pixel),
        square |-> computePixelValueSAT_(t.square, w_, i, j, pixel * pixel),
        tilted |-> computePixelValueRSAT_(t.tilted, w_, i, j, pixel, pixelAbove),
        sobel  |-> IF t.sobel = NoTable THEN NoTable
                   ELSE computePixelValueSobelSAT_(t.sobel, w_, i, j, sobel(px, w_, h_, j, i))]

RECURSIVE IntegralFrom(_, _, _, _, _)
IntegralFrom(px, w_, h_, t, k) ==
    IF k >= w_ * h_ THEN t
    ELSE LET u == IntegralPixel(px, w_, h_, t, k \div w_, k % w_)
         IN \* (the comparison has u evaluated before the next iteration)
            IF u = t THEN IntegralFrom(px, w_, h_, t, k + 1)
            ELSE IntegralFrom(px, w_, h_, u, k + 1)

\* computeIntegralImage on freshly allocated (zero) tables
computeIntegralImage(px, w_, h_, withSobel) ==
    IntegralFrom(px, w_, h_,
                 [sum |-> Zeros(w_ * h_), square |-> Zeros(w_ * h_), tilted |-> Zeros(w_ * h_),
                  sobel |-> IF withSobel THEN Zeros(w_ * h_) ELSE NoTable], 0)

\* ------------------------------------------------------------------ images
GenPixels == {Gray10, Warm}

\* every w x h image over GenPixels, as a sequence of RGB values
GenImages(w_, h_) == [1..(w_ * h_) -> GenPixels]

\* 2 x 2 with luminance [[1,2],[3,4]]
ImageS2 == <<Green2, Green4, Gray3, Green7>>

\* a white column, 1 x TallH
ImageTall == [k \in 1..TallH |-> White]

\* ------------------------------------------------- the pass, pixel by pixel
InitImage ==
    /\ \/ \E w_ \in 1..MaxW, h_ \in 1..MaxH :
            /\ w_ * h_ <= MaxArea
            /\ width = w_
            /\ height = h_
            /\ \E img \in GenImages(w_, h_) \cup (IF w_ = 2 /\ h_ = 2 THEN {ImageS2} ELSE {}) :
                 pixels = MkPixels(img)
       \/ /\ width = 1
          /\ height = TallH
          /\ pixels = MkPixels(ImageTall)
    /\ cur = 0
    /\ integralImage = Zeros(width * height)
    /\ integralImageSquare = Zeros(width * height)
    /\ tiltedIntegralImage = Zeros(width * height)
    /\ integralImageSobel \in {Zeros(width * height), NoTable}
    /\ IdleDS /\ IdleMerge /\ IdleDetect /\ IdleTracker /\ IdleFilter /\ IdleEvents

ComputePixel ==
    /\ cur < width * height
    /\ LET t == IntegralPixel(pixels, width, height,
                              [sum |-> integralImage, square |-> integralImageSquare,
                               tilted |-> tiltedIntegralImage, sobel |-> integralImageSobel],
                              cur \div width, cur % width)
       IN /\ integralImage' = t.sum
          /\ integralImageSquare' = t.square
          /\ tiltedIntegralImage' = t.tilted
          /\ integralImageSobel' = t.sobel
    /\ cur' = cur + 1
    /\ UNCHANGED <<varsEvents, varsFilter, pixels, width, height, varsDS, varsMerge, varsDetect, varsTracker>>

NextImage == ComputePixel

SpecImage == InitImage /\ [][NextImage]_vars

\* ---- quantities the claims about the tables speak of
PassDone == cur = width * height

\* luminance p(x, y); 0 outside the image
Lum(x, y) ==
    IF x \in 0..(width - 1) /\ y \in 0..(height - 1)
    THEN Luminance(pixels, (y * width + x) * 4) ELSE 0

RECURSIVE SumRow(_, _, _, _)
SumRow(y, x1, x2, sq) ==
    IF x1 > x2 THEN 0
    ELSE (IF sq THEN Lum(x1, y) * Lum(x1, y) ELSE Lum(x1, y)) + SumRow(y, x1 + 1, x2, sq)

RECURSIVE DirectSum(_, _, _, _, _)
DirectSum(x1, y1, x2, y2, sq) ==
    IF y1 > y2 THEN 0 ELSE SumRow(y1, x1, x2, sq) + DirectSum(x1, y1 + 1, x2, y2, sq)

\* cell (x, y) of a table; 0 outside the image
Cell(T, x, y) ==
    IF x \in 0..(width - 1) /\ y \in 0..(height - 1) THEN T[y * width + x] ELSE 0

TableRect(T, x1, y1, x2, y2) ==
    Cell(T, x2, y2) - Cell(T, x1 - 1, y2) - Cell(T, x2, y1 - 1) + Cell(T, x1 - 1, y1 - 1)

IsImageS2 == width = 2 /\ height = 2 /\ pixels = MkPixels(ImageS2)

\* C1: once the pass is over, cell (x,y) of the sum table holds the sum of the
\* luminance over [0,x] x [0,y] and cell (x,y) of the squared table the sum of
\* its square, every rectangle sum read from a table equals the direct sum,
\* and the 2x2 image [[1,2],[3,4]] gives [[1,3],[4,10]] and [[1,5],[10,30]].
C1_SatIsPrefixSum ==
    PassDone =>
      /\ \A x \in 0..(width - 1), y \in 0..(height - 1) :
           /\ Cell(integralImage, x, y) = DirectSum(0, 0, x, y, FALSE)
           /\ Cell(integralImageSquare, x, y) = DirectSum(0, 0, x, y, TRUE)
      /\ \A x1 \in 0..(width - 1), y1 \in 0..(height - 1) :
           \A x2 \in x1..(width - 1), y2 \in y1..(height - 1) :
             /\ TableRect(integralImage, x1, y1, x2, y2) = DirectSum(x1, y1, x2, y2, FALSE)
             /\ TableRect(integralImageSquare, x1, y1, x2, y2) = DirectSum(x1, y1, x2, y2, TRUE)
      /\ IsImageS2 =>
           /\ integralImage = (0 :> 1 @@ 1 :> 3 @@ 2 :> 4 @@ 3 :> 10)
           /\ integralImageSquare = (0 :> 1 @@ 1 :> 5 @@ 2 :> 10 @@ 3 :> 30)

\* C9: every cell of the tilted table satisfies
\* R[x,y] = R[x-1,y-1] + R[x+1,y-1] - R[x,y-2] + p(x,y) + p(x,y-1),
\* a term outside the image counting as 0, first and last column included.
C9_TiltedRecurrence ==
    PassDone =>
      \A x \in 0..(width - 1), y \in 0..(height - 1) :
        Cell(tiltedIntegralImage, x, y)
          = Cell(tiltedIntegralImage, x - 1, y - 1) + Cell(tiltedIntegralImage, x + 1, y - 1)
            - Cell(tiltedIntegralImage, x, y - 2) + Lum(x, y) + Lum(x, y - 1)


\* a table as it was when cell k was computed: the cells from k on still 0
Before(T, k) == [m \in DOMAIN T |-> IF m < k THEN T[m] ELSE 0]

\* C11: no store of the pass wraps: the value computed for every cell of the
\* sum, squared-sum, tilted and (when allocated) Sobel table lies in
\* [-2^31, 2^31 - 1], on every image of the model (all within 8192 x 8192).
C11_NoWrap ==
    /\ width <= 8192 /\ height <= 8192
    /\ \A k \in 0..(cur - 1) :
         LET x == k % width
             y == k \div width
         IN /\ InInt32(satValue(Before(integralImage, k), width, k, Lum(x, y)))
            /\ InInt32(satValue(Before(integralImageSquare, k), width, k, Lum(x, y) * Lum(x, y)))
            /\ InInt32(rsatValue(Before(tiltedIntegralImage, k), width, k, Lum(x, y), Lum(x, y - 1)))
            /\ integralImageSobel # NoTable =>
                 InInt32(sobelSatValue(Before(integralImageSobel, k), width, k,
                                       sobel(pixels, width, height, x, y)))

\* ------------------------------------- grayscale and sobel, called directly
\* The RGBA buffer of a row-major sequence of RGB values with alpha a.
MkPixelsAlpha(rgbs, a) ==
    [k \in 0..(4 * Len(rgbs) - 1) |->
        IF k % 4 = 3 THEN a ELSE rgbs[(k \div 4) + 1][(k % 4) + 1]]

FilterPixels == {Black, White, Warm, Gray10, Green7}
FilterAlphas == {255, 7}

InitFilter ==
    /\ \/ \E w_ \in 1..FilterSide, h_ \in 1..FilterSide :
            /\ width = w_
            /\ height = h_
            /\ \/ \E rgb \in FilterPixels, a \in FilterAlphas :
                    pixels = MkPixelsAlpha([k \in 1..(w_ * h_) |-> rgb], a)
               \/ /\ w_ * h_ <= MaxArea
                  /\ \E img \in GenImages(w_, h_) : pixels = MkPixels(img)
       \/ \E v \in 0..255 :
            /\ width = 1
            /\ height = 1
            /\ pixels = MkPixels(<<<<v, v, v>>>>)
    /\ littleEndian \in BOOLEAN
    /\ gray = <<>> /\ edges = <<>> /\ fdone = {}
    /\ cur = 0
    /\ integralImage = <<>> /\ integralImageSquare = <<>>
    /\ tiltedIntegralImage = <<>> /\ integralImageSobel = <<>>
    /\ IdleDS /\ IdleMerge /\ IdleDetect /\ IdleTracker /\ IdleEvents

\* grayscale(pixels, width, height, false)
Grayscale ==
    /\ "grayscale" \notin fdone
    /\ gray' = grayscaleFlat(pixels, littleEndian)
    /\ fdone' = fdone \cup {"grayscale"}
    /\ UNCHANGED <<varsEvents, littleEndian, edges, varsImage, varsDS, varsMerge, varsDetect, varsTracker>>

\* sobel(pixels, width, height)
Sobel ==
    /\ "sobel" \notin fdone
    /\ edges' = sobelOutput(pixels, width, height, littleEndian)
    /\ fdone' = fdone \cup {"sobel"}
    /\ UNCHANGED <<varsEvents, littleEndian, gray, varsImage, varsDS, varsMerge, varsDetect, varsTracker>>

NextFilter == Grayscale \/ Sobel

SpecFilter == InitFilter /\ [][NextFilter]_vars

\* ---- quantities the claims about the two filters speak of
\* bytes 0, 1, 2 of pixel p
RGB(p) == <<pixels[4 * p], pixels[4 * p + 1], pixels[4 * p + 2]>>

\* C13: grayscale(pixels, width, height, false) returns one byte per pixel,
\* floor((13933 * R + 46871 * G + 4732 * B) / 65536) of the pixel's R, G, B
\* (bytes 0, 1, 2), and so v for a pixel with R = G = B = v.
C13_GrayscaleFormula ==
    "grayscale" \in fdone =>
      /\ DOMAIN gray = 0..(width * height - 1)
      /\ \A p \in 0..(width * height - 1) :
           /\ gray[p] = (13933 * RGB(p)[1] + 46871 * RGB(p)[2] + 4732 * RGB(p)[3]) \div 65536
           /\ (RGB(p)[1] = RGB(p)[2] /\ RGB(p)[2] = RGB(p)[3]) => gray[p] = RGB(p)[1]

\* every pixel has the RGB value of the first
ConstantImage == \A p \in 0..(width * height - 1) : RGB(p) = RGB(0)

\* C14: on an image whose pixels all have the same RGB value, of any width
\* and height (below the kernel length 3 too), sobel returns 0 in the three
\* colour channels of every pixel and 255 in every alpha channel.
C14_SobelOfConstantIsZero ==
    ("sobel" \in fdone /\ ConstantImage) =>
      edges = [k \in 0..(4 * width * height - 1) |-> IF k % 4 = 3 THEN 255 ELSE Sqrt(0)]

\* sobel has returned on a constant image that is not black, narrower than
\* the kernel and as high, whose alpha bytes are not 255
C14_Witness ==
    /\ "sobel" \in fdone
    /\ ConstantImage
    /\ RGB(0) = Warm
    /\ width < 3 /\ height = 3
    /\ pixels[3] = 7
    /\ edges[0] = Sqrt(0) /\ edges[3] = 255

\* ------------------------------------------------------------ DisjointSet
\* new DisjointSet(length).parent
DisjointSet(length) == [i \in 0..(length - 1) |-> i]

\* find(i): the representative and the parent array after path compression
RECURSIVE find(_, _)
find(p, i) ==
    IF p[i] = i THEN [rep |-> i, parent |-> p]
    ELSE LET r == find(p, p[i])
         IN [rep |-> r.rep, parent |-> [r.parent EXCEPT ![i] = r.rep]]

\* a slip: the element, not its representative, is re-parented
unionOfElement(p, i, j) ==
    LET fi == find(p, i)
        fj == find(fi.parent, j)
    IN [fj.parent EXCEPT ![i] = fj.rep]

\* union(i, j): the parent array afterwards
union(p, i, j) ==
    LET fi == find(p, i)
        fj == find(fi.parent, j)
    IN [fj.parent EXCEPT ![fi.rep] = fj.rep]

\* the elements one step of `lk` away from a member of S, with S
RECURSIVE Closure(_, _)
Closure(S, lk) ==
    LET T == S \cup {k \in UNION lk : \E e \in lk : k \in e /\ e \cap S # {}}
    IN IF T = S THEN S ELSE Closure(T, lk)

\* i and j are linked by the reflexive-symmetric-transitive closure of lk
Linked(lk, i, j) == j \in Closure({i}, lk)

InitDS ==
    /\ \E n \in 1..MaxN : parent = DisjointSet(n)
    /\ links = {}
    /\ dsOp = [op |-> "new", wrote |-> FALSE]
    /\ IdleImage /\ IdleMerge /\ IdleDetect /\ IdleTracker /\ IdleFilter /\ IdleEvents

Find ==
    \E i \in DOMAIN parent :
      /\ parent' = find(parent, i).parent
      /\ dsOp' = [op |-> "find", wrote |-> parent' # parent]
      /\ UNCHANGED <<varsEvents, varsFilter, links, varsImage, varsMerge, varsDetect, varsTracker>>

Union ==
    \E i \in DOMAIN parent, j \in DOMAIN parent :
      /\ parent' = union(parent, i, j)
      /\ links' = IF Linked(links, i, j) THEN links ELSE links \cup {{i, j}}
      /\ dsOp' = [op |-> "union", wrote |-> parent' # parent]
      /\ UNCHANGED <<varsEvents, varsFilter, varsImage, varsMerge, varsDetect, varsTracker>>

NextDS == Find \/ Union

SpecDS == InitDS /\ [][NextDS]_vars

\* the element reached from i by n steps along the parent array
RECURSIVE Ancestor(_, _, _)
Ancestor(p, i, n) == IF n = 0 THEN i ELSE Ancestor(p, p[i], n - 1)

\* the parent array holds no cycle but the self-loops of roots
Acyclic(p) ==
    \A i \in DOMAIN p :
      LET r == Ancestor(p, i, Cardinality(DOMAIN p)) IN r \in DOMAIN p /\ p[r] = r

\* the representative of i, by walking up and writing nothing
Root(p, i) == Ancestor(p, i, Cardinality(DOMAIN p))

\* find(i) == find(j), the two calls made one after the other
SameFind(p, i, j) ==
    LET fi == find(p, i) IN fi.rep = find(fi.parent, j).rep

C4_State ==
    /\ Acyclic(parent)
    /\ \A i \in DOMAIN parent :
         LET class == Closure({i}, links)
         IN \A j \in DOMAIN parent : SameFind(parent, i, j) <=> j \in class

C4_Step ==
    dsOp'.op = "find" =>
      /\ DOMAIN parent' = DOMAIN parent
      /\ \A k \in DOMAIN parent : Root(parent', k) = Root(parent, k)

\* C4: in every state reached by union and find calls the parent array has
\* no cycle but the self-loops of roots (so find terminates) and find(i) ==
\* find(j) exactly when i and j are linked by the closure of the pairs passed
\* to union; and no find call changes the representative of any element.
C4_DisjointSet == []C4_State /\ [][C4_Step]_vars

\* a find call that compressed a path in a set with two classes of which one
\* has three members
C4_Witness ==
    /\ dsOp = [op |-> "find", wrote |-> TRUE]
    /\ \E i \in DOMAIN parent, j \in DOMAIN parent : ~Linked(links, i, j)
    /\ \E i \in DOMAIN parent : Cardinality(Closure({i}, links)) >= 3


\* -------------------------------------------------------- mergeRectangles
Rect(x, y, w, h) == [x |-> x, y |-> y, width |-> w, height |-> h]

\* the 0-based array of a sequence
Arr(seq) == [k \in 0..(Len(seq) - 1) |-> seq[k + 1]]

\* intersectRect of utils/Math: the rectangles (x0,y0)-(x1,y1) and
\* (x2,y2)-(x3,y3) overlap with positive area
intersectRect(x0, y0, x1, y1, x2, y2, x3, y3) ==
    x2 < x1 /\ x0 < x3 /\ y2 < y1 /\ y0 < y3

\* ---- the doubles of the merge test
\* A positive double is [hi, lo, e] with value (hi * Limb + lo) * 2^e and a
\* significand of 53 bits, 2^52 <= hi * Limb + lo < 2^53.  The operations
\* round to nearest, ties to even, as IEEE 754 division and multiplication do.
Limb == 2 ^ 27

RECURSIVE Log2(_)
Log2(a) == IF a < 2 THEN 0 ELSE 1 + Log2(a \div 2)

\* the double of an integer 1 <= a < 2^26
Double(a) == [hi |-> a * 2 ^ (25 - Log2(a)), lo |-> 0, e |-> Log2(a) - 52]

\* two-limb naturals <<hi, lo>>
Twice(p) == <<2 * p[1] + (2 * p[2]) \div Limb, (2 * p[2]) % Limb>>
Halve(p) == <<p[1] \div 2, (p[1] % 2) * (Limb \div 2) + p[2] \div 2>>
PairLess(p, q) == p[1] < q[1] \/ (p[1] = q[1] /\ p[2] < q[2])
PairSub(p, q) ==
    IF p[2] >= q[2] THEN <<p[1] - q[1], p[2] - q[2]>> ELSE <<p[1] - q[1] - 1, p[2] + Limb - q[2]>>
PairInc(p) == IF p[2] + 1 = Limb THEN <<p[1] + 1, 0>> ELSE <<p[1], p[2] + 1>>

\* the nearest double of (p + s) * 2^e, where p >= 2^53 and s, in [0, 1), is
\* positive exactly when `sticky`: to the even neighbour at a half
roundCarry(n, e) ==
    IF n[1] >= Limb \div 2 THEN [hi |-> Limb \div 4, lo |-> 0, e |-> e + 2]
    ELSE [hi |-> n[1], lo |-> n[2], e |-> e + 1]

RECURSIVE RoundTo53(_, _, _)
RoundTo53(p, sticky, e) ==
    IF p[1] >= Limb THEN RoundTo53(Halve(p), sticky \/ p[2] % 2 = 1, e + 1)
    ELSE IF p[2] % 2 = 1 /\ (sticky \/ (p[2] \div 2) % 2 = 1)
         THEN roundCarry(PairInc(Halve(p)), e)
         ELSE roundCarry(Halve(p), e)

\* k more bits of the quotient q, with remainder r, of a division by d
RECURSIVE divBits(_, _, _, _)
RECURSIVE divBit(_, _, _, _)
divBit(q2, r2, d, k) ==
    IF q2[1] < 0 \/ PairLess(r2, d) THEN divBits(q2, r2, d, k - 1)
    ELSE divBits(PairInc(q2), PairSub(r2, d), d, k - 1)

divBits(q, r, d, k) ==
    IF k = 0 THEN [q |-> q, r |-> r] ELSE divBit(Twice(q), Twice(r), d, k)

\* x / y; by a power of two the quotient is x with another exponent, and
\* with equal significands it is a power of two
divRound(d, e) == RoundTo53(d.q, d.r # <<0, 0>>, e)

fdiv(x, y) ==
    LET mx == <<x.hi, x.lo>>
        my == <<y.hi, y.lo>>
    IN IF my = <<Limb \div 4, 0>> THEN [x EXCEPT !.e = x.e - y.e - 52]
       ELSE IF mx = my THEN [hi |-> Limb \div 4, lo |-> 0, e |-> x.e - y.e - 52]
       ELSE IF PairLess(mx, my) THEN divRound(divBits(<<0, 0>>, mx, my, 54), x.e - y.e - 54)
       ELSE divRound(divBits(<<0, 1>>, PairSub(mx, my), my, 54), x.e - y.e - 54)

\* bit k of the significand of y
bitOf(y, k) == IF k >= 27 THEN (y.hi \div 2 ^ (k - 27)) % 2 ELSE (y.lo \div 2 ^ k) % 2

\* 2 * acc + b * (the significand of x), in four limbs
mulRow(acc, b, x) ==
    LET t0 == 2 * acc[4] + b * x.lo
        t1 == 2 * acc[3] + b * x.hi + t0 \div Limb
        t2 == 2 * acc[2] + t1 \div Limb
        t3 == 2 * acc[1] + t2 \div Limb
    IN <<t3, t2 % Limb, t1 % Limb, t0 % Limb>>

\* the significand of x times the bits k..0 of that of y, added to acc * 2^(k+1)
RECURSIVE mulBits(_, _, _, _)
mulBits(acc, x, y, k) ==
    IF k < 0 \/ acc[1] < 0 THEN acc ELSE mulBits(mulRow(acc, bitOf(y, k), x), x, y, k - 1)

\* x * y; by a power of two the product is x with another exponent
mulRound(P, e) ==
    LET top == P[2] * 8 + P[3] \div 2 ^ 24
    IN RoundTo53(<<P[1] * 8 + top \div Limb, top % Limb>>, P[3] % 2 ^ 24 # 0 \/ P[4] # 0, e)

fmul(x, y) ==
    IF <<y.hi, y.lo>> = <<Limb \div 4, 0>> THEN [x EXCEPT !.e = x.e + y.e + 52]
    ELSE mulRound(mulBits(<<0, 0, 0, 0>>, x, y, 52), x.e + y.e + 51)

\* x >= y
fge(x, y) == x.e > y.e \/ (x.e = y.e /\ ~PairLess(<<x.hi, x.lo>>, <<y.hi, y.lo>>))

\* overlap / (area * (area1 / area2)) >= regionsOverlap, with ro = <<num, den>>.
\* The exact quotient overlap * area2 / (area * area1) and ro are ratios of
\* integers below 2^15: when they differ they differ by more than the three
\* roundings can move the left side, and the comparison of the doubles is
\* that of the exact values; when they are equal the roundings decide.
atLeast(overlap, area, area1, area2, ro) ==
    LET l == overlap * area2 * ro[2]
        r == ro[1] * area * area1
    IN IF l # r THEN l > r
       ELSE fge(fdiv(Double(overlap), fmul(Double(area), fdiv(Double(area1), Double(area2)))),
                fdiv(Double(ro[1]), Double(ro[2])))

\* The test of the pair (r1, r2) in the double loop: the rectangles intersect,
\* overlap / (area1 * (area1 / area2)) >= regionsOverlap and
\* overlap / (area2 * (area1 / area2)) >= regionsOverlap, with ro = <<num, den>>.
sameGroup(r1, r2, ro) ==
    /\ intersectRect(r1.x, r1.y, r1.x + r1.width, r1.y + r1.height,
                     r2.x, r2.y, r2.x + r2.width, r2.y + r2.height)
    /\ LET x1 == Max(r1.x, r2.x)
           y1 == Max(r1.y, r2.y)
           x2 == Min(r1.x + r1.width, r2.x + r2.width)
           y2 == Min(r1.y + r1.height, r2.y + r2.height)
           overlap == (x1 - x2) * (y1 - y2)
           area1 == r1.width * r1.height
           area2 == r2.width * r2.height
       IN /\ atLeast(overlap, area1, area1, area2, ro)
          /\ atLeast(overlap, area2, area1, area2, ro)

\* the inner loop of the double loop: rectangle i against rectangles j, j+1, ...
RECURSIVE unionRow(_, _, _, _, _)
unionRow(rs, ro, p, i, j) ==
    IF j >= Cardinality(DOMAIN rs) THEN p
    ELSE LET q == IF sameGroup(rs[i], rs[j], ro) THEN union(p, i, j) ELSE p
         IN \* (the comparison has q evaluated before the next iteration)
            IF q = p THEN unionRow(rs, ro, p, i, j + 1) ELSE unionRow(rs, ro, q, i, j + 1)

\* the double loop from row i on
RECURSIVE unionPairs(_, _, _, _)
unionPairs(rs, ro, p, i) ==
    IF i >= Cardinality(DOMAIN rs) THEN p
    ELSE LET q == unionRow(rs, ro, p, i, 0)
         IN IF q = p THEN unionPairs(rs, ro, p, i + 1) ELSE unionPairs(rs, ro, q, i + 1)

\* a slip: y is copied from x
groupStartSlip(r) ==
    [total |-> 1, width |-> r.width, height |-> r.height, x |-> r.x, y |-> r.x]

\* map[rep] = {total: 1, width: ..., height: ..., x: ..., y: ...}
groupStart(r) ==
    [total |-> 1, width |-> r.width, height |-> r.height, x |-> r.x, y |-> r.y]

\* map[rep].total++ and the four sums
groupAdd(g, r) ==
    [total |-> g.total + 1, width |-> g.width + r.width, height |-> g.height + r.height,
     x |-> g.x + r.x, y |-> g.y + r.y]

\* the second loop from k on: st.parent is the parent array, st.map the object
\* `map`, st.keys its keys in the order they were created
RECURSIVE groupFrom(_, _, _)
groupFrom(rs, st, k) ==
    IF k >= Cardinality(DOMAIN rs) THEN st
    ELSE LET f == find(st.parent, k)
             rep == f.rep
         IN IF rep \in DOMAIN st.map
            THEN groupFrom(rs, [parent |-> f.parent,
                                map |-> [st.map EXCEPT ![rep] = groupAdd(@, rs[k])],
                                keys |-> st.keys], k + 1)
            ELSE groupFrom(rs, [parent |-> f.parent,
                                map |-> (rep :> groupStart(rs[k])) @@ st.map,
                                keys |-> Append(st.keys, rep)], k + 1)

\* a slip: the average is truncated without the + 0.5
roundNoHalf(sum, total_) ==
    IF sum >= 0 THEN sum \div total_ ELSE -((-sum) \div total_)

\* (sum / total + 0.5) | 0: | 0 truncates toward zero
round(sum, total_) ==
    IF 2 * sum + total_ >= 0 THEN (2 * sum + total_) \div (2 * total_)
    ELSE -((-(2 * sum + total_)) \div (2 * total_))

\* the elements of a finite set of integers in ascending order
RECURSIVE Ascending(_)
Ascending(S) ==
    IF S = {} THEN <<>>
    ELSE LET lo == CHOOSE a \in S : \A b \in S : a <= b
         IN <<lo>> \o Ascending(S \ {lo})

\* a slip: the keys in the order of their creation
objectKeysByCreation(st) == st.keys

\* Object.keys(map): integer keys come in ascending numeric order
objectKeys(st) == Ascending(DOMAIN st.map)

mergeRectangles(rs, ro) ==
    LET n == Cardinality(DOMAIN rs)
        p == unionPairs(rs, ro, DisjointSet(n), 0)
        st == groupFrom(rs, [parent |-> p, map |-> <<>>, keys |-> <<>>], 0)
        keys == objectKeys(st)
    IN [g \in 1..Len(keys) |->
          LET rect == st.map[keys[g]]
          IN [total |-> rect.total,
              width |-> round(rect.width, rect.total),
              height |-> round(rect.height, rect.total),
              x |-> round(rect.x, rect.total),
              y |-> round(rect.y, rect.total)]]

\* ---- the merger called on a list, then on the rectangles of its own output
RectUniverse ==
    {Rect(0, 0, 10, 10), Rect(1, 1, 10, 10), Rect(100, 100, 10, 10), Rect(4, 0, 10, 10),
     Rect(2, 5, 10, 10), Rect(0, 0, 20, 20), Rect(3, 2, 8, 6), Rect(5, 5, 5, 5)}
\* a thin rectangle inside one square and half inside another
ThinRects == {Rect(0, 1, 2, 7), Rect(0, 0, 10, 10), Rect(1, 1, 10, 10)}

RegionsOverlaps == {<<1, 2>>, <<3, 4>>, <<1, 1>>}

InitMerge ==
    /\ \/ \E n \in 0..MaxRects : \E rs \in [0..(n - 1) -> RectUniverse] : rects = rs
       \/ \E rs \in [0..1 -> ThinRects] : rects = rs
    /\ regionsOverlap \in RegionsOverlaps
    /\ merged = <<>> /\ remerged = <<>> /\ mpc = "input"
    /\ IdleImage /\ IdleDS /\ IdleDetect /\ IdleTracker /\ IdleFilter /\ IdleEvents

Merge ==
    /\ mpc = "input"
    /\ merged' = mergeRectangles(rects, regionsOverlap)
    /\ mpc' = "merged"
    /\ UNCHANGED <<varsEvents, varsFilter, rects, regionsOverlap, remerged, varsImage, varsDS, varsDetect, varsTracker>>

\* the {x, y, width, height} of a merger output, as a candidate list
Stripped(out) ==
    [k \in 0..(Len(out) - 1) |-> Rect(out[k + 1].x, out[k + 1].y, out[k + 1].width, out[k + 1].height)]

MergeAgain ==
    /\ mpc = "merged"
    /\ remerged' = mergeRectangles(Stripped(merged), regionsOverlap)
    /\ mpc' = "remerged"
    /\ UNCHANGED <<varsEvents, varsFilter, rects, regionsOverlap, merged, varsImage, varsDS, varsDetect, varsTracker>>

NextMerge == Merge \/ MergeAgain

SpecMerge == InitMerge /\ [][NextMerge]_vars

\* ---- quantities the claims about the merger speak of
\* the sum of f over the rectangles of rs with an index in S
RECURSIVE SumOf(_, _, _)
SumOf(rs, S, f) ==
    IF S = {} THEN 0
    ELSE LET k == CHOOSE a \in S : TRUE
         IN (CASE f = "x" -> rs[k].x [] f = "y" -> rs[k].y
               [] f = "width" -> rs[k].width [] f = "height" -> rs[k].height)
            + SumOf(rs, S \ {k}, f)

RECURSIVE SumTotals(_, _)
SumTotals(out, g) == IF g = 0 THEN 0 ELSE out[g].total + SumTotals(out, g - 1)

\* the parent array the double loop leaves: the groups of the disjoint set
GroupsOf(rs, ro) == unionPairs(rs, ro, DisjointSet(Cardinality(DOMAIN rs)), 0)

\* rectangle k of rs intersects no other rectangle of rs
Isolated(rs, k) ==
    \A j \in DOMAIN rs \ {k} :
      ~intersectRect(rs[k].x, rs[k].y, rs[k].x + rs[k].width, rs[k].y + rs[k].height,
                     rs[j].x, rs[j].y, rs[j].x + rs[j].width, rs[j].y + rs[j].height)

WithTotal(r, t) == [total |-> t, width |-> r.width, height |-> r.height, x |-> r.x, y |-> r.y]

\* the merger output in which every rectangle of `out` is a group of its own
Singletons(out) == [g \in 1..Len(out) |-> WithTotal(out[g], 1)]

\* C3 as stated: re-applying the merger to the rectangles of its own output,
\* with the same regionsOverlap, returns the same rectangles, each a singleton.
C3_Idempotent == mpc = "remerged" => remerged = Singletons(merged)

\* C3 amended: re-applying the merger returns the same rectangles as
\* singletons exactly when no two rectangles of the output satisfy the merge
\* test with one another; averaged rectangles can satisfy it when no two of
\* their members did.
C3_IdempotentIffApart ==
    mpc = "remerged" =>
      LET out == Stripped(merged)
      IN (remerged = Singletons(merged))
           <=> (\A a \in DOMAIN out : \A b \in DOMAIN out \ {a} :
                  ~sameGroup(out[a], out[b], regionsOverlap))

\* the second application left a real merge (a group of two or more beside
\* another group) as it was
C3_Witness ==
    /\ mpc = "remerged"
    /\ Len(merged) >= 2
    /\ \E g \in 1..Len(merged) : merged[g].total >= 2
    /\ remerged = Singletons(merged)

\* C10: the output holds one rectangle per group of the disjoint set, the
\* g-th for the g-th smallest representative; its total is the number of
\* members and each of x, y, width, height is (sum over the members / total
\* + 0.5) truncated; the totals add up to the number of inputs; {0,0,10,10}
\* and {1,1,10,10} with 0.5 give one rectangle with total 2; a rectangle that
\* intersects no other input comes out unchanged with total 1.
C10_OnePerGroup ==
    mpc \in {"merged", "remerged"} =>
      LET P == GroupsOf(rects, regionsOverlap)
          reps == Ascending({Root(P, k) : k \in DOMAIN rects})
          Members(r) == {k \in DOMAIN rects : Root(P, k) = r}
      IN /\ Len(merged) = Len(reps)
         /\ \A g \in 1..Len(reps) :
              LET M == Members(reps[g])
                  t == Cardinality(M)
              IN merged[g] = [total |-> t,
                              width |-> ((2 * SumOf(rects, M, "width") + t) \div (2 * t)),
                              height |-> ((2 * SumOf(rects, M, "height") + t) \div (2 * t)),
                              x |-> ((2 * SumOf(rects, M, "x") + t) \div (2 * t)),
                              y |-> ((2 * SumOf(rects, M, "y") + t) \div (2 * t))]
         /\ SumTotals(merged, Len(merged)) = Cardinality(DOMAIN rects)
         /\ (rects = Arr(<<Rect(0, 0, 10, 10), Rect(1, 1, 10, 10)>>) /\ regionsOverlap = <<1, 2>>)
              => (Len(merged) = 1 /\ merged[1].total = 2)
         /\ \A k \in DOMAIN rects :
              Isolated(rects, k) => \E g \in 1..Len(merged) : merged[g] = WithTotal(rects[k], 1)

\* three inputs came out as a group of two, whose average needed the + 0.5,
\* and a rectangle that intersects no other
C10_Witness ==
    /\ mpc = "merged"
    /\ Cardinality(DOMAIN rects) = 3
    /\ \E g \in 1..Len(merged) : merged[g].total = 2
    /\ \E k \in DOMAIN rects : Isolated(rects, k)
    /\ \E g \in 1..Len(merged) :
         LET M == {k \in DOMAIN rects : Root(GroupsOf(rects, regionsOverlap), k)
                                          = Ascending({Root(GroupsOf(rects, regionsOverlap), j) : j \in DOMAIN rects})[g]}
         IN SumOf(rects, M, "x") % 2 = 1 /\ Cardinality(M) = 2

\* ---- the symmetric relation of the grouping
\* the rectangles intersect and overlap / min(a1, a2) >= regionsOverlap
Overlapping(r1, r2, ro) ==
    /\ intersectRect(r1.x, r1.y, r1.x + r1.width, r1.y + r1.height,
                     r2.x, r2.y, r2.x + r2.width, r2.y + r2.height)
    /\ LET overlap == (Min(r1.x + r1.width, r2.x + r2.width) - Max(r1.x, r2.x))
                        * (Min(r1.y + r1.height, r2.y + r2.height) - Max(r1.y, r2.y))
       IN overlap * ro[2] >= ro[1] * Min(r1.width * r1.height, r2.width * r2.height)

\* the pairs of indices of rs the relation holds between
OverlapLinks(rs, ro) ==
    {{i, j} : i \in DOMAIN rs, j \in DOMAIN rs} \ {e \in {{i, j} : i \in DOMAIN rs, j \in DOMAIN rs} :
       \E i \in e, j \in e : ~Overlapping(rs[i], rs[j], ro)}

\* the orders the list rs can come in
Orders(rs) == {f \in [DOMAIN rs -> DOMAIN rs] : \A a \in DOMAIN rs : \E b \in DOMAIN rs : f[b] = a}

\* the rectangles of an output with the number of times each occurs
Occurrences(out) ==
    {<<out[g], Cardinality({h \in 1..Len(out) : out[h] = out[g]})>> : g \in 1..Len(out)}

\* C21: two rectangles are in one group of mergeRectangles exactly when they
\* are joined by a chain of rectangles that intersect with
\* overlap / min(a1, a2) >= regionsOverlap; and the rectangles returned for a
\* list are those returned for the same list in any other order.
C21_GroupsAreComponents ==
    mpc = "merged" =>
      LET P == GroupsOf(rects, regionsOverlap)
          lk == OverlapLinks(rects, regionsOverlap)
      IN /\ \A i \in DOMAIN rects : \A j \in DOMAIN rects :
              (Root(P, i) = Root(P, j)) <=> Linked(lk, i, j)
         /\ \A f \in Orders(rects) :
              Occurrences(mergeRectangles([k \in DOMAIN rects |-> rects[f[k]]], regionsOverlap))
                = Occurrences(merged)

\* ------------------------------------------------------ numbers of detect
\* A number is a pair <<num, den>>; den > 0 for a finite value and
\* <<0, 0>> stands for NaN (what arithmetic on `undefined` gives).
NaN == <<0, 0>>
IsNaN(a) == a[2] = 0
Q(n) == <<n, 1>>
RatAdd(a, b) == IF IsNaN(a) \/ IsNaN(b) THEN NaN ELSE <<a[1] * b[2] + b[1] * a[2], a[2] * b[2]>>
RatSub(a, b) == RatAdd(a, <<-b[1], b[2]>>)
RatMul(a, b) == IF IsNaN(a) \/ IsNaN(b) THEN NaN ELSE <<a[1] * b[1], a[2] * b[2]>>
\* a < b; false when either side is NaN
RatLess(a, b) == ~IsNaN(a) /\ ~IsNaN(b) /\ a[1] * b[2] < b[1] * a[2]
\* a | 0 (truncation toward zero); NaN | 0 is 0
ToInt(a) ==
    IF IsNaN(a) THEN 0
    ELSE IF a[1] >= 0 THEN a[1] \div a[2] ELSE -((-a[1]) \div a[2])
\* (a + 0.5) | 0
RoundInt(a) == ToInt(RatAdd(a, <<1, 2>>))

\* table[idx] as a number: NaN outside the table
Rd(table, idx) == IF Has(table, idx) THEN Q(table[idx]) ELSE NaN
\* data[w] as a number: NaN outside the cascade
Dat(data_, w) == IF Has(data_, w) THEN data_[w] ELSE NaN

\* table[wbA] - table[wbB] - table[wbD] + table[wbC] for the block at (i, j)
blockSum(table, i, j, width_, blockWidth_, blockHeight_) ==
    LET wbA == i * width_ + j
        wbB == wbA + blockWidth_
        wbD == wbA + blockHeight_ * width_
        wbC == wbD + blockWidth_
    IN RatAdd(RatSub(RatSub(Rd(table, wbA), Rd(table, wbB)), Rd(table, wbD)), Rd(table, wbC))

\* blockEdgesDensity < edgesDensity, with
\* blockEdgesDensity = blockSum / (blockWidth * blockHeight * 255):
\* an empty block gives 0 / 0 = NaN or an infinity of the sign of the sum
isTriviallyExcluded(edgesDensity_, sobelTable, i, j, width_, blockWidth_, blockHeight_) ==
    LET s == blockSum(sobelTable, i, j, width_, blockWidth_, blockHeight_)
        area == blockWidth_ * blockHeight_
    IN IF IsNaN(s) \/ IsNaN(edgesDensity_) THEN FALSE
       ELSE IF area = 0 THEN s[1] < 0
       ELSE RatLess(s, RatMul(edgesDensity_, Q(area * 255)))

\* ---------------------------------------------------------- evalStages
\* rectsSum * inverseArea < nodeThreshold * standardDeviation, where the window
\* has `area` pixels, luminance sum s and sum of squares q, so that
\* variance = vnum / area^2 with vnum = q * area - s * s and
\* standardDeviation = sqrt(vnum) / area when vnum > 0, and 1 otherwise.
\* An empty window has inverseArea = Infinity and mean = 0 * Infinity = NaN,
\* hence standardDeviation = 1 and the left side is an infinity of the sign of
\* rectsSum, or NaN.
nodeTest(rectsSum, nodeThreshold, area, s, q) ==
    LET vnum == q * area - s * s
        l == rectsSum[1] * nodeThreshold[2]
        r == nodeThreshold[1] * rectsSum[2]
    IN IF IsNaN(rectsSum) \/ IsNaN(nodeThreshold) THEN FALSE
       ELSE IF area = 0 THEN rectsSum[1] < 0
       ELSE IF vnum <= 0 THEN l < r * area
       ELSE IF r >= 0 THEN l < 0 \/ l * l < r * r * vnum
       ELSE l < 0 /\ l * l > r * r * vnum

\* the contribution of the rectangle whose five values start at data[w]
rectSum(c, w, tilted) ==
    LET rectLeft == RoundInt(RatAdd(Q(c.j), RatMul(Dat(c.data, w), c.scale)))
        rectTop == RoundInt(RatAdd(Q(c.i), RatMul(Dat(c.data, w + 1), c.scale)))
        rectWidth == RoundInt(RatMul(Dat(c.data, w + 2), c.scale))
        rectHeight == RoundInt(RatMul(Dat(c.data, w + 3), c.scale))
        rectWeight == Dat(c.data, w + 4)
        t1 == (rectLeft - rectHeight + rectWidth) + (rectTop + rectWidth + rectHeight - 1) * c.width
        t2 == rectLeft + (rectTop - 1) * c.width
        t3 == (rectLeft - rectHeight) + (rectTop + rectHeight - 1) * c.width
        t4 == (rectLeft + rectWidth) + (rectTop + rectWidth - 1) * c.width
        w1 == rectTop * c.width + rectLeft
        w2 == w1 + rectWidth
        w3 == w1 + rectHeight * c.width
        w4 == w3 + rectWidth
    IN IF tilted
       THEN RatMul(RatSub(RatSub(RatAdd(Rd(c.tilted, t1), Rd(c.tilted, t2)), Rd(c.tilted, t3)),
                          Rd(c.tilted, t4)), rectWeight)
       ELSE RatMul(RatAdd(RatSub(RatSub(Rd(c.sum, w1), Rd(c.sum, w2)), Rd(c.sum, w3)),
                          Rd(c.sum, w4)), rectWeight)

\* the loop over the rectangles of a node, from rectangle r (at data[w]) on
RECURSIVE rectsFrom(_, _, _, _, _, _)
rectsFrom(c, w, tilted, r, rectsLength, rectsSum) ==
    IF r >= rectsLength THEN rectsSum
    ELSE rectsFrom(c, w + 5, tilted, r + 1, rectsLength, RatAdd(rectsSum, rectSum(c, w, tilted)))

\* a slip: the two values of a node exchanged
nodeValueSwapped(below, nodeLeft, nodeRight) == IF below THEN nodeRight ELSE nodeLeft

\* what a node adds to stageSum (lines 117..121)
nodeValue(below, nodeLeft, nodeRight) == IF below THEN nodeLeft ELSE nodeRight

\* the loop over the nodes of a stage: the cursor after the stage and stageSum
RECURSIVE nodesFrom(_, _, _, _)
nodesFrom(c, w, nodeLength, stageSum) ==
    IF nodeLength = 0 THEN [w |-> w, stageSum |-> stageSum]
    ELSE LET tilted == Dat(c.data, w)[1] # 0
             rectsLength == ToInt(Dat(c.data, w + 1))
             n == IF rectsLength > 0 THEN rectsLength ELSE 0
             rectsSum == rectsFrom(c, w + 2, tilted, 0, n, Q(0))
             v == w + 2 + 5 * n
             nodeThreshold == Dat(c.data, v)
             nodeLeft == Dat(c.data, v + 1)
             nodeRight == Dat(c.data, v + 2)
         IN nodesFrom(c, v + 3, nodeLength - 1,
                      RatAdd(stageSum, nodeValue(nodeTest(rectsSum, nodeThreshold, c.area, c.s, c.q),
                                                 nodeLeft, nodeRight)))

\* a slip: the comparison of line 126 the other way round
stageFailsReversed(stageSum, stageThreshold) == RatLess(stageThreshold, stageSum)

\* stageSum < stageThreshold
stageFails(stageSum, stageThreshold) == RatLess(stageSum, stageThreshold)

\* the loop over the stages from cursor w on: the verdict and the cursor at
\* the return
RECURSIVE stagesFrom(_, _)
stagesFrom(c, w) ==
    IF w >= Cardinality(DOMAIN c.data) THEN [result |-> TRUE, w |-> w]
    ELSE LET stageThreshold == Dat(c.data, w)
             nodeLength == ToInt(Dat(c.data, w + 1))
             nd == nodesFrom(c, w + 2, nodeLength, Q(0))
         IN IF stageFails(nd.stageSum, stageThreshold) THEN [result |-> FALSE, w |-> nd.w]
            ELSE stagesFrom(c, nd.w)

\* the arguments and the locals of evalStages before its loop
stageLocals(data_, sum, square, tilted, i, j, width_, blockWidth_, blockHeight_, scale_) ==
    [data |-> data_, sum |-> sum, tilted |-> tilted, i |-> i, j |-> j,
     width |-> width_, scale |-> scale_,
     area |-> blockWidth_ * blockHeight_,
     s |-> blockSum(sum, i, j, width_, blockWidth_, blockHeight_)[1],
     q |-> blockSum(square, i, j, width_, blockWidth_, blockHeight_)[1]]

evalStagesRun(data_, sum, square, tilted, i, j, width_, blockWidth_, blockHeight_, scale_) ==
    stagesFrom(stageLocals(data_, sum, square, tilted, i, j, width_, blockWidth_,
                           blockHeight_, scale_), 2)

\* a slip: a cascade without a stage passes no window
evalStagesNeedsStage(data_, sum, square, tilted, i, j, width_, blockWidth_, blockHeight_, scale_) ==
    /\ Cardinality(DOMAIN data_) > 2
    /\ evalStagesRun(data_, sum, square, tilted, i, j, width_, blockWidth_, blockHeight_, scale_).result

evalStages(data_, sum, square, tilted, i, j, width_, blockWidth_, blockHeight_, scale_) ==
    evalStagesRun(data_, sum, square, tilted, i, j, width_, blockWidth_, blockHeight_, scale_).result

\* ------------------------------------------------------------------ detect
\* (scale * minWidth) | 0
blockSize(scale_, minSize) == ToInt(RatMul(scale_, minSize))

\* (scale * stepSize + 0.5) | 0
stepOf(scale_, stepSize_) == RoundInt(RatMul(scale_, stepSize_))

\* the body of the two for loops at (i, j): the window is skipped when it
\* is pruned or fails a stage, and appended to rects otherwise
scanWindow(d, i, j, found) ==
    IF RatLess(Q(0), d.edgesDensity)
         /\ isTriviallyExcluded(d.edgesDensity, d.t.sobel, i, j, d.width, d.blockWidth, d.blockHeight)
    THEN found
    ELSE IF evalStages(d.data, d.t.sum, d.t.square, d.t.tilted, i, j, d.width,
                       d.blockWidth, d.blockHeight, d.scale)
    THEN Append(found, Rect(j, i, d.blockWidth, d.blockHeight))
    ELSE found

\* the two for loops of one scale, from (i, j) on, with d.step > 0
RECURSIVE scanFrom(_, _, _, _)
scanFrom(d, i, j, found) ==
    IF i >= d.height - d.blockHeight THEN found
    ELSE IF j >= d.width - d.blockWidth THEN scanFrom(d, i + d.step, 0, found)
    ELSE LET kept == scanWindow(d, i, j, found)
         IN IF kept = found THEN scanFrom(d, i, j + d.step, found)
            ELSE scanFrom(d, i, j + d.step, kept)

\* the locals of one iteration of the while loop
scaleLocals(t, width_, height_, stepSize_, edgesDensity_, data_, scale_) ==
    [t |-> t, width |-> width_, height |-> height_, data |-> data_,
     edgesDensity |-> edgesDensity_, scale |-> scale_,
     blockWidth |-> blockSize(scale_, Dat(data_, 0)),
     blockHeight |-> blockSize(scale_, Dat(data_, 1)),
     step |-> stepOf(scale_, stepSize_)]

\* the while loop from `scale_` on.  With step <= 0 the for loops never
\* advance and the call does not return.
RECURSIVE detectLoop(_, _, _, _, _, _, _, _, _)
detectLoop(t, width_, height_, scaleFactor_, stepSize_, edgesDensity_, data_, scale_, found) ==
    LET d == scaleLocals(t, width_, height_, stepSize_, edgesDensity_, data_, scale_)
    IN IF ~(d.blockWidth < width_ /\ d.blockHeight < height_)
       THEN [returns |-> TRUE, rects |-> found]
       ELSE IF d.step <= 0 THEN [returns |-> FALSE, rects |-> found]
       ELSE LET kept == scanFrom(d, 0, 0, found)
            IN IF kept = found
               THEN detectLoop(t, width_, height_, scaleFactor_, stepSize_, edgesDensity_,
                               data_, RatMul(scale_, scaleFactor_), found)
               ELSE detectLoop(t, width_, height_, scaleFactor_, stepSize_, edgesDensity_,
                               data_, RatMul(scale_, scaleFactor_), kept)

\* detect as a function of its arguments, for a call that returns
detect(px, width_, height_, initialScale_, scaleFactor_, stepSize_, edgesDensity_, data_, ro) ==
    LET t == computeIntegralImage(px, width_, height_, RatLess(Q(0), edgesDensity_))
        run == detectLoop(t, width_, height_, scaleFactor_, stepSize_, edgesDensity_, data_,
                          RatMul(initialScale_, scaleFactor_), <<>>)
    IN mergeRectangles(Arr(run.rects), ro)

detectReturns(px, width_, height_, initialScale_, scaleFactor_, stepSize_, edgesDensity_, data_) ==
    detectLoop(computeIntegralImage(px, width_, height_, RatLess(Q(0), edgesDensity_)),
               width_, height_, scaleFactor_, stepSize_, edgesDensity_, data_,
               RatMul(initialScale_, scaleFactor_), <<>>).returns

\* ---- the calls the model makes
\* Side x Side images
ImageFlat == [k \in 1..(Side * Side) |-> Gray10]
\* dark left half, bright right half
ImageEdge == [k \in 1..(Side * Side) |-> IF (k - 1) % Side < Side \div 2 THEN Black ELSE White]
\* a bright square in the upper left corner
ImageCorner ==
    [k \in 1..(Side * Side) |->
       IF (k - 1) % Side < Side \div 2 /\ (k - 1) \div Side < Side \div 2 THEN White ELSE Black]
DetectImages == {ImageFlat, ImageEdge, ImageCorner}
\* (Side - 1) x Side, bright and dark columns in turn
ImageStripes == [k \in 1..((Side - 1) * Side) |-> IF ((k - 1) % (Side - 1)) % 2 = 0 THEN White ELSE Black]

\* cascades: minWidth, minHeight, then per stage: stageThreshold, nodeLength,
\* and per node: tilted, rectsLength, rectsLength x (left, top, width, height,
\* weight), nodeThreshold, nodeLeft, nodeRight
CascadeNoStage == Arr(<<Q(2), Q(2)>>)
CascadeOneValue == Arr(<<Q(2)>>)
\* a stage whose only node adds 0 whatever the window, under threshold 1
CascadeRejecting == Arr(<<Q(2), Q(2), Q(1), Q(1), Q(0), Q(0), Q(0), Q(0), Q(0)>>)
\* a stage that passes the windows whose mean over the feature rectangle is
\* at least half a standard deviation
CascadeBright ==
    Arr(<<Q(2), Q(2), Q(1), Q(1),
          Q(0), Q(1), Q(0), Q(0), Q(2), Q(2), Q(1), <<1, 2>>, Q(0), Q(1)>>)
\* the same on a tilted feature and with two nodes
CascadeTilted ==
    Arr(<<Q(2), Q(2), Q(1), Q(2),
          Q(1), Q(1), Q(1), Q(1), Q(1), Q(1), Q(1), <<1, 2>>, Q(0), Q(1),
          Q(0), Q(1), Q(0), Q(0), Q(1), Q(1), Q(-1), <<-1, 2>>, Q(1), Q(0)>>)
\* two nodes that add 0 under threshold 1/2, one on a tilted and one on an
\* upright rectangle, and then a stage that no window fails
CascadeRejectingTwo ==
    Arr(<<Q(2), Q(2), <<1, 2>>, Q(2),
          Q(1), Q(1), Q(1), Q(1), Q(1), Q(1), Q(1), <<1, 2>>, Q(0), Q(0),
          Q(0), Q(1), Q(0), Q(0), Q(2), Q(2), Q(-1), <<-1, 2>>, Q(0), Q(0),
          Q(0), Q(1), Q(0), Q(0), Q(0), Q(1), Q(1)>>)
\* three stages: the one of CascadeBright, the one of CascadeTilted under
\* threshold 1, and one node on the right column of the window
CascadeThree ==
    Arr(<<Q(2), Q(2),
          Q(1), Q(1),
          Q(0), Q(1), Q(0), Q(0), Q(2), Q(2), Q(1), <<1, 2>>, Q(0), Q(1),
          Q(1), Q(2),
          Q(1), Q(1), Q(1), Q(1), Q(1), Q(1), Q(1), <<1, 2>>, Q(0), Q(1),
          Q(0), Q(1), Q(0), Q(0), Q(1), Q(1), Q(-1), <<-1, 2>>, Q(1), Q(0),
          <<1, 2>>, Q(1),
          Q(0), Q(2), Q(1), Q(0), Q(1), Q(2), Q(1), Q(0), Q(0), Q(1), Q(2), Q(-1), <<1, 4>>, Q(0), Q(1)>>)
DetectCascades == {CascadeNoStage, CascadeRejecting, CascadeBright, CascadeTilted}

Params(is, sf, ss, ed) ==
    [initialScale |-> is, scaleFactor |-> sf, stepSize |-> ss, edgesDensity |-> ed]
\* the defaults of ObjectTracker
ParamsDefault == Params(Q(1), <<5, 4>>, <<3, 2>>, <<1, 5>>)
ParamsNoPrune == Params(Q(1), <<5, 4>>, <<3, 2>>, Q(0))
ParamsCoarse == Params(Q(1), <<3, 2>>, Q(1), Q(0))
\* (1.25 * 0.25 + 0.5) | 0 = 0: a step of zero
ParamsZeroStep == Params(Q(1), <<5, 4>>, <<1, 4>>, Q(0))
\* edgesDensity outside [0, 1]
ParamsDensityTwo == Params(Q(1), <<3, 2>>, Q(1), Q(2))
DetectParams == {ParamsDefault, ParamsNoPrune, ParamsCoarse}

Call(buf, w_, h_, p, data_, ro) ==
    [pixels |-> buf, width |-> w_, height |-> h_, initialScale |-> p.initialScale,
     scaleFactor |-> p.scaleFactor, stepSize |-> p.stepSize,
     edgesDensity |-> p.edgesDensity, data |-> data_, regionsOverlap |-> ro]

\* a buffer with one RGBA value more than width * height
LongBuffer(img) == MkPixels(Append(img, White))

DetectCalls ==
    {Call(MkPixels(img), Side, Side, p, c, <<1, 2>>) :
       img \in DetectImages, p \in DetectParams, c \in DetectCascades}
    \cup {Call(MkPixels(ImageEdge), Side, Side, ParamsCoarse, CascadeNoStage, <<3, 4>>),
          Call(MkPixels(ImageEdge), Side, Side, ParamsZeroStep, CascadeNoStage, <<1, 2>>),
          Call(MkPixels(ImageEdge), Side, Side, ParamsDensityTwo, CascadeNoStage, <<1, 2>>),
          Call(MkPixels(ImageEdge), Side, Side, ParamsNoPrune, CascadeOneValue, <<1, 2>>),
          Call(LongBuffer(ImageEdge), Side, Side, ParamsCoarse, CascadeNoStage, <<1, 2>>),
          Call(MkPixels(ImageEdge), Side, Side, ParamsZeroStep, CascadeRejecting, <<1, 2>>)}
    \cup {Call(MkPixels(img), Side, Side, p, CascadeRejectingTwo, <<1, 2>>) :
            img \in {ImageEdge, ImageCorner}, p \in {ParamsDefault, ParamsCoarse}}
    \cup {Call(MkPixels(ImageStripes), Side - 1, Side, p, c, <<1, 2>>) :
            p \in {ParamsDefault, ParamsCoarse}, c \in {CascadeRejectingTwo, CascadeBright}}
    \cup {Call(MkPixels(img), Side, Side, ParamsCoarse, CascadeThree, <<1, 2>>) :
            img \in {ImageEdge, ImageCorner}}
    \cup {Call(MkPixels(ImageStripes), Side - 1, Side, ParamsNoPrune, CascadeThree, <<1, 2>>)}

\* computeIntegralImage on the tables detect allocates, for each of the calls
DetectTables ==
    [c \in DetectCalls |->
       computeIntegralImage(c.pixels, c.width, c.height, RatLess(Q(0), c.edgesDensity))]

\* the arguments of the call in progress (or of the last call)
CurrentCall ==
    [pixels |-> pixels, width |-> width, height |-> height, initialScale |-> initialScale,
     scaleFactor |-> scaleFactor, stepSize |-> stepSize, edgesDensity |-> edgesDensity,
     data |-> data, regionsOverlap |-> regionsOverlap]

InitDetect ==
    /\ IdleImage /\ IdleDS /\ IdleMerge /\ IdleDetect /\ IdleTracker /\ IdleFilter /\ IdleEvents

\* a slip: the list of the previous call is kept
keepRects(previous) == previous

\* const rects = []
newRects(previous) == Arr(<<>>)

\* lines 227..244: the locals, the tables, the first scale
DetectCall ==
    /\ dpc \in {"idle", "returned"}
    /\ \E c \in DetectCalls :
         LET t == DetectTables[c]
             s == RatMul(c.initialScale, c.scaleFactor)
         IN /\ pixels' = c.pixels /\ width' = c.width /\ height' = c.height
            /\ initialScale' = c.initialScale /\ scaleFactor' = c.scaleFactor
            /\ stepSize' = c.stepSize /\ edgesDensity' = c.edgesDensity
            /\ data' = c.data /\ regionsOverlap' = c.regionsOverlap
            /\ total' = 0
            /\ rects' = newRects(rects)
            /\ integralImage' = t.sum /\ integralImageSquare' = t.square
            /\ tiltedIntegralImage' = t.tilted /\ integralImageSobel' = t.sobel
            /\ scale' = s
            /\ blockWidth' = blockSize(s, Dat(c.data, 0))
            /\ blockHeight' = blockSize(s, Dat(c.data, 1))
    /\ result' = <<>>
    /\ dpc' = "scan"
    /\ UNCHANGED <<varsEvents, varsFilter, cur, merged, remerged, mpc, memo, varsDS, varsTracker>>

Tables ==
    [sum |-> integralImage, square |-> integralImageSquare,
     tilted |-> tiltedIntegralImage, sobel |-> integralImageSobel]

\* one iteration of the while loop (lines 246..272)
DetectScale ==
    /\ dpc = "scan"
    /\ blockWidth < width /\ blockHeight < height
    /\ LET d == scaleLocals(Tables, width, height, stepSize, edgesDensity, data, scale)
           found == scanFrom(d, 0, 0, <<>>)
           s == RatMul(scale, scaleFactor)
       IN /\ d.step > 0
          \* rects[total++] = {...}, once per window kept
          /\ rects' = [k \in DOMAIN rects \cup (total..(total + Len(found) - 1)) |->
                         IF k >= total /\ k < total + Len(found) THEN found[k - total + 1]
                         ELSE rects[k]]
          /\ total' = total + Len(found)
          /\ scale' = s
          /\ blockWidth' = blockSize(s, Dat(data, 0))
          /\ blockHeight' = blockSize(s, Dat(data, 1))
    /\ UNCHANGED <<varsEvents, varsFilter, pixels, width, height, cur, integralImage, integralImageSquare,
                   tiltedIntegralImage, integralImageSobel, regionsOverlap, merged, remerged,
                   mpc, initialScale, scaleFactor, stepSize, edgesDensity, data, result, memo,
                   dpc, varsDS, varsTracker>>

\* an iteration of the while loop with step <= 0: `i += step` and `j += step`
\* do not advance, the call never returns
DetectSpin ==
    /\ dpc = "scan"
    /\ blockWidth < width /\ blockHeight < height
    /\ stepOf(scale, stepSize) <= 0
    /\ dpc' = "spinning"
    /\ UNCHANGED <<varsEvents, varsFilter, varsImage, varsDS, varsMerge, varsTracker, initialScale, scaleFactor,
                   stepSize, edgesDensity, data, total, scale, blockWidth, blockHeight, result,
                   memo>>

\* return mergeRectangles(rects, regionsOverlap).  History: memo keeps the
\* arguments and the result of one earlier call, any one, and whether a call
\* with other arguments has returned since.
DetectReturn ==
    /\ dpc = "scan"
    /\ ~(blockWidth < width /\ blockHeight < height)
    /\ result' = mergeRectangles(rects, regionsOverlap)
    /\ dpc' = "returned"
    /\ \/ memo = <<>> /\ memo' \in {memo, <<[call |-> CurrentCall, result |-> result',
                                               between |-> FALSE]>>}
       \/ memo # <<>> /\ memo' = <<[memo[1] EXCEPT !.between = @ \/ memo[1].call # CurrentCall]>>
    /\ UNCHANGED <<varsEvents, varsFilter, varsImage, varsDS, varsMerge, varsTracker, initialScale, scaleFactor,
                   stepSize, edgesDensity, data, total, scale, blockWidth, blockHeight>>

NextDetect == DetectCall \/ DetectScale \/ DetectSpin \/ DetectReturn

SpecDetect == InitDetect /\ [][NextDetect]_vars

\* ---- quantities the claims about detect speak of
\* initialScale * scaleFactor^k, the scale of the k-th iteration of the while loop
RECURSIVE ScaleAt(_, _, _)
ScaleAt(is, sf, k) == IF k = 0 THEN is ELSE RatMul(ScaleAt(is, sf, k - 1), sf)

\* the iterations the while loop makes in a call that returns: the block
\* grows with the scale, so they are the k whose block is smaller than the image
ScalesScanned(c) ==
    {k \in 1..MaxScales :
       /\ blockSize(ScaleAt(c.initialScale, c.scaleFactor, k), Dat(c.data, 0)) < c.width
       /\ blockSize(ScaleAt(c.initialScale, c.scaleFactor, k), Dat(c.data, 1)) < c.height}

\* the windows <<k, i, j>> the scan of call c visits
WindowsVisited(c) ==
    {w \in ScalesScanned(c) \X (0..(c.height - 1)) \X (0..(c.width - 1)) :
       LET s == ScaleAt(c.initialScale, c.scaleFactor, w[1])
           step == stepOf(s, c.stepSize)
       IN /\ step > 0
          /\ w[2] % step = 0 /\ w[2] < c.height - blockSize(s, Dat(c.data, 1))
          /\ w[3] % step = 0 /\ w[3] < c.width - blockSize(s, Dat(c.data, 0))}

\* the visited windows the edge density test lets through
WindowsUnpruned(c, sobelTable) ==
    {w \in WindowsVisited(c) :
       LET s == ScaleAt(c.initialScale, c.scaleFactor, w[1])
       IN ~(RatLess(Q(0), c.edgesDensity)
            /\ isTriviallyExcluded(c.edgesDensity, sobelTable, w[2], w[3], c.width,
                                   blockSize(s, Dat(c.data, 0)), blockSize(s, Dat(c.data, 1))))}

NoStage(c) == Cardinality(DOMAIN c.data) = 2

\* C2 as stated: with a cascade that holds only minW and minH, detect returns
\* an empty list.
C2_NoStageReturnsEmpty == (dpc = "returned" /\ NoStage(CurrentCall)) => result = <<>>

\* C2 amended: with a cascade that holds only minW and minH every window the
\* scan visits and the edge density test does not prune is a candidate: the
\* candidates are as many as those windows, the totals of the returned
\* rectangles add up to that number, and the returned list is empty exactly
\* when there is no such window.
C2_NoStageKeepsEveryWindow ==
    (dpc = "returned" /\ NoStage(CurrentCall)) =>
      LET n == Cardinality(WindowsUnpruned(CurrentCall, integralImageSobel))
      IN /\ Cardinality(DOMAIN rects) = n
         /\ total = n
         /\ SumTotals(result, Len(result)) = n
         /\ (result = <<>>) <=> (n = 0)

\* a call with a cascade without a stage returned rectangles although the
\* edge density test pruned some of the windows
C2_Witness ==
    /\ dpc = "returned" /\ NoStage(CurrentCall)
    /\ result # <<>>
    /\ Cardinality(WindowsUnpruned(CurrentCall, integralImageSobel))
         < Cardinality(WindowsVisited(CurrentCall))

\* the list mergeRectangles is to return on rs: one rectangle per group, the
\* g-th for the g-th smallest representative, with the rounded means
ByRepresentative(rs, ro) ==
    LET P == GroupsOf(rs, ro)
        reps == Ascending({Root(P, k) : k \in DOMAIN rs})
    IN [g \in 1..Len(reps) |->
          LET M == {k \in DOMAIN rs : Root(P, k) = reps[g]}
              t == Cardinality(M)
          IN [total |-> t,
              width |-> ((2 * SumOf(rs, M, "width") + t) \div (2 * t)),
              height |-> ((2 * SumOf(rs, M, "height") + t) \div (2 * t)),
              x |-> ((2 * SumOf(rs, M, "x") + t) \div (2 * t)),
              y |-> ((2 * SumOf(rs, M, "y") + t) \div (2 * t))]]

\* the representatives of the groups of rs in the order the grouping loop
\* meets them
RepsAsMet(rs, ro) ==
    groupFrom(rs, [parent |-> GroupsOf(rs, ro), map |-> <<>>, keys |-> <<>>], 0).keys

\* C5: a call returns the list an earlier call with the same arguments
\* returned, whatever calls were made before or between; the list holds the
\* groups of the candidates of this call in ascending order of representative.
C5_Deterministic ==
    dpc = "returned" =>
      /\ (memo # <<>> /\ memo[1].call = CurrentCall) => result = memo[1].result
      /\ result = ByRepresentative(rects, regionsOverlap)
      /\ Cardinality(DOMAIN rects) = total

\* a call returned two or more rectangles, whose representatives were not met
\* in ascending order, for the second time, after a call with other arguments
C5_Witness ==
    /\ dpc = "returned" /\ memo # <<>>
    /\ memo[1].call = CurrentCall /\ memo[1].between
    /\ Len(result) >= 2
    /\ RepsAsMet(rects, regionsOverlap) # Ascending({Root(GroupsOf(rects, regionsOverlap), k) : k \in DOMAIN rects})

\* what section 7 calls an invalid argument or a buffer mismatch
InvalidCall(c) ==
    \/ ~RatLess(Q(0), c.initialScale) \/ ~RatLess(Q(0), c.scaleFactor)
    \/ ~RatLess(Q(0), c.stepSize)
    \/ RatLess(c.edgesDensity, Q(0)) \/ RatLess(Q(1), c.edgesDensity)
    \/ Cardinality(DOMAIN c.data) < 2
    \/ Cardinality(DOMAIN c.pixels) # 4 * c.width * c.height

\* C6 as stated: a call with an invalid argument fails before it allocates or
\* computes anything and returns no list.  (The source has no check: the call
\* fills the tables, scans and returns.)
C6_FailsFast == dpc \in {"scan", "spinning", "returned"} => ~InvalidCall(CurrentCall)

\* ---- the layout of a cascade: minWidth, minHeight, then the stages
\* the cursor after the node that starts at w
NodeEnd(data_, w) == w + 2 + 5 * ToInt(Dat(data_, w + 1)) + 3

\* the cursors at which the n nodes from w on start
RECURSIVE NodeStarts(_, _, _)
NodeStarts(data_, w, n) ==
    IF n <= 0 THEN <<>> ELSE <<w>> \o NodeStarts(data_, NodeEnd(data_, w), n - 1)

\* the nodes of the stage that starts at w
StageNodes(data_, w) == NodeStarts(data_, w + 2, ToInt(Dat(data_, w + 1)))

\* the cursor after the stage that starts at w
StageEnd(data_, w) ==
    LET nodes == StageNodes(data_, w)
    IN IF nodes = <<>> THEN w + 2 ELSE NodeEnd(data_, nodes[Len(nodes)])

\* the cursors at which the stages from w on start
RECURSIVE StageStarts(_, _)
StageStarts(data_, w) ==
    IF w >= Cardinality(DOMAIN data_) THEN <<>>
    ELSE <<w>> \o StageStarts(data_, StageEnd(data_, w))

\* a cascade whose first stage has a threshold > 0 and nodes that add 0 on
\* either side
Rejecting(data_) ==
    /\ Cardinality(DOMAIN data_) > 2
    /\ RatLess(Q(0), Dat(data_, 2))
    /\ LET nodes == StageNodes(data_, 2)
       IN /\ nodes # <<>>
          /\ \A n \in 1..Len(nodes) :
               /\ Dat(data_, NodeEnd(data_, nodes[n]) - 2) = Q(0)
               /\ Dat(data_, NodeEnd(data_, nodes[n]) - 1) = Q(0)

\* C12: a call of detect with a rejecting cascade records no window, at any
\* point of its scan, and when it returns it returns the empty list; on every
\* image, image size and parameter setting of the model, pruning on or off.
C12_RejectingReturnsEmpty ==
    (dpc \in {"scan", "spinning", "returned"} /\ Rejecting(data)) =>
      /\ total = 0
      /\ rects = <<>>
      /\ dpc = "returned" => result = <<>>

\* a call with pruning on and a two-node rejecting first stage has returned,
\* after windows were put to the stages
C12_Witness ==
    /\ dpc = "returned"
    /\ Rejecting(data)
    /\ data = CascadeRejectingTwo
    /\ RatLess(Q(0), edgesDensity)
    /\ WindowsUnpruned(CurrentCall, integralImageSobel) # {}
    /\ result = <<>>

\* ---- the stages as the layout gives them
\* the locals of evalStages on the window (i, j) of the scale in progress
WindowLocals(i, j) ==
    stageLocals(data, integralImage, integralImageSquare, tiltedIntegralImage, i, j, width,
                blockWidth, blockHeight, scale)

\* what the node that starts at n adds: leftValue if
\* rectsSum * inverseArea < nodeThreshold * stddev, rightValue otherwise
NodeAdds(c, n) ==
    LET rectsSum == rectsFrom(c, n + 2, Dat(c.data, n)[1] # 0, 0, ToInt(Dat(c.data, n + 1)), Q(0))
        v == NodeEnd(c.data, n)
    IN IF nodeTest(rectsSum, Dat(c.data, v - 3), c.area, c.s, c.q)
       THEN Dat(c.data, v - 2) ELSE Dat(c.data, v - 1)

RECURSIVE NodesAdd(_, _, _)
NodesAdd(c, nodes, k) ==
    IF k > Len(nodes) THEN Q(0) ELSE RatAdd(NodeAdds(c, nodes[k]), NodesAdd(c, nodes, k + 1))

\* the sum of the stage that starts at w
StageSum(c, w) == NodesAdd(c, StageNodes(c.data, w), 1)

\* the stages, by number, whose sum is below their threshold
StagesBelow(c) ==
    LET starts == StageStarts(c.data, 2)
    IN {k \in 1..Len(starts) : RatLess(StageSum(c, starts[k]), Dat(c.data, starts[k]))}

Least(S) == CHOOSE k \in S : \A m \in S : k <= m

\* the windows of the scale in progress, at every position
WindowsOfScale ==
    IF dpc = "scan" /\ blockWidth < width /\ blockHeight < height
         /\ Cardinality(DOMAIN data) >= 2
    THEN (0..(height - blockHeight - 1)) \X (0..(width - blockWidth - 1))
    ELSE {}

\* C17: evalStages returns true exactly when every stage sum is at least the
\* threshold of the stage; otherwise it returns at the first stage whose sum
\* is below its threshold, with its cursor at the end of that stage, so that
\* no later stage is read; a run that rejects nothing ends with the cursor at
\* the end of the cascade.  The cursor positions are those of the layout.
C17_StagesInOrder ==
    \A p \in WindowsOfScale :
      LET c == WindowLocals(p[1], p[2])
          ret == stagesFrom(c, 2)
          below == StagesBelow(c)
          starts == StageStarts(data, 2)
      IN /\ ret.result = (below = {})
         /\ ret.w = IF below = {} THEN Cardinality(DOMAIN data)
                    ELSE StageEnd(data, starts[Least(below)])

\* on a cascade of three stages, one window of the scale passes every
\* stage and one passes the first, fails the second and would pass the third
C17_Witness ==
    /\ data = CascadeThree
    /\ Len(StageStarts(data, 2)) = 3
    /\ \E p \in WindowsOfScale : StagesBelow(WindowLocals(p[1], p[2])) = {}
    /\ \E p \in WindowsOfScale : StagesBelow(WindowLocals(p[1], p[2])) = {2}

\* ---- the preconditions of the interface
\* a cascade whose stages end where the array ends
WellFormed(data_) ==
    /\ Cardinality(DOMAIN data_) >= 2
    /\ LET starts == StageStarts(data_, 2)
       IN starts # <<>> => StageEnd(data_, starts[Len(starts)]) = Cardinality(DOMAIN data_)

MeetsPreconditions(c) ==
    /\ RatLess(Q(1), c.scaleFactor) /\ RatLess(Q(0), c.stepSize) /\ RatLess(Q(0), c.initialScale)
    /\ ~RatLess(c.edgesDensity, Q(0)) /\ ~RatLess(Q(1), c.edgesDensity)
    /\ RatLess(Q(0), c.regionsOverlap) /\ ~RatLess(Q(1), c.regionsOverlap)
    /\ Cardinality(DOMAIN c.pixels) = 4 * c.width * c.height
    /\ WellFormed(c.data)

\* C18: a call of detect that meets the preconditions (scaleFactor > 1,
\* stepSize > 0, initialScale > 0, a well-formed cascade) terminates: in every
\* iteration of the scale loop the two position loops advance by a step of at
\* least 1, and the call never stays in its loops for ever.
C18_ScanAdvances ==
    (dpc \in {"scan", "spinning"} /\ MeetsPreconditions(CurrentCall)
       /\ blockWidth < width /\ blockHeight < height) =>
      /\ stepOf(scale, stepSize) >= 1
      /\ dpc # "spinning"

\* ---- the windows of a scale
\* wbA, wbB, wbD, wbC, the indices isTriviallyExcluded and evalStages read for
\* the window at (i, j)
windowCorners(i, j, width_, blockWidth_, blockHeight_) ==
    LET wbA == i * width_ + j
        wbB == wbA + blockWidth_
        wbD == wbA + blockHeight_ * width_
        wbC == wbD + blockWidth_
    IN <<wbA, wbB, wbD, wbC>>

\* a slip: the loops go on while i <= height - blockHeight, j <= width - blockWidth
RECURSIVE scanTestedToEdge(_, _, _, _)
scanTestedToEdge(d, i, j, seen) ==
    IF i > d.height - d.blockHeight THEN seen
    ELSE IF j > d.width - d.blockWidth THEN scanTestedToEdge(d, i + d.step, 0, seen)
    ELSE scanTestedToEdge(d, i, j + d.step, Append(seen, <<i, j>>))

\* the positions <<i, j>> at which the two for loops of one scale run their
\* body, from (i, j) on, in order, with d.step > 0
RECURSIVE scanTested(_, _, _, _)
scanTested(d, i, j, seen) ==
    IF i >= d.height - d.blockHeight THEN seen
    ELSE IF j >= d.width - d.blockWidth THEN scanTested(d, i + d.step, 0, seen)
    ELSE scanTested(d, i, j + d.step, Append(seen, <<i, j>>))

\* the windows the iteration in progress of the while loop tests; with a
\* step of zero the loops stay at (0, 0)
TestedWindows ==
    IF dpc \in {"scan", "spinning"} /\ blockWidth < width /\ blockHeight < height
    THEN LET d == scaleLocals(Tables, width, height, stepSize, edgesDensity, data, scale)
         IN IF d.step > 0 THEN scanTested(d, 0, 0, <<>>)
            ELSE IF d.step = 0 THEN <<<<0, 0>>>> ELSE <<>>
    ELSE <<>>

MultipleOf(a, step) == \E k \in 0..a : a = k * step

\* the tables the window is read from
TablesRead ==
    {integralImage, integralImageSquare}
      \cup (IF RatLess(Q(0), edgesDensity) THEN {integralImageSobel} ELSE {})

\* C22: in every iteration of the while loop of detect, every window (i, j)
\* that is tested has i and j multiples of the step of the iteration,
\* j + blockWidth < width and i + blockHeight < height, and the four indices
\* wbA, wbB, wbD, wbC computed for it lie in [0, width * height), inside the
\* integral arrays; every rectangle the iteration records is
\* {x: j, y: i, width: blockWidth, height: blockHeight} of a tested window.
C22_WindowsInside ==
    [][LET step == stepOf(scale, stepSize)
           tested == TestedWindows
       IN /\ \A n \in 1..Len(tested) :
               LET i == tested[n][1]
                   j == tested[n][2]
                   corners == windowCorners(i, j, width, blockWidth, blockHeight)
               IN /\ MultipleOf(i, step) /\ MultipleOf(j, step)
                  /\ j + blockWidth < width /\ i + blockHeight < height
                  /\ \A m \in 1..4 :
                       /\ corners[m] >= 0 /\ corners[m] < width * height
                       /\ \A table \in TablesRead : Has(table, corners[m])
          /\ \A k \in DOMAIN rects' \ DOMAIN rects :
               \E n \in 1..Len(tested) :
                 rects'[k] = Rect(tested[n][2], tested[n][1], blockWidth, blockHeight)]_vars

\* an iteration with edge pruning and a step of two that tests four windows,
\* after an iteration that recorded a window away from the top left corner
C22_Witness ==
    /\ dpc = "scan" /\ RatLess(Q(0), edgesDensity)
    /\ stepOf(scale, stepSize) = 2
    /\ Len(TestedWindows) >= 4
    /\ \E k \in DOMAIN rects : rects[k].x > 0 /\ rects[k].y > 0

\* ----------------------------------------------------------- ObjectTracker
\* A JavaScript value handed to the constructor: t is its type, s its text
\* when it is a string or a number, items its entries when it is an array.
Undefined == [t |-> "undefined", s |-> "", items |-> <<>>]
Str(s) == [t |-> "string", s |-> s, items |-> <<>>]
Num(s) == [t |-> "number", s |-> s, items |-> <<>>]
List(items) == [t |-> "array", s |-> "", items |-> items]

\* if (classifiers): undefined, '' and 0 are falsy, an array is truthy
Truthy(v) ==
    CASE v.t = "undefined" -> FALSE
      [] v.t = "string" -> v.s # ""
      [] v.t = "number" -> v.s # "0"
      [] OTHER -> TRUE

\* the exports of detection/classifiers: the shipped names, here with small
\* cascades in place of the shipped ones
detectClassifiers ==
    [name \in {"face", "eye", "mouth"} |->
       CASE name = "face" -> CascadeBright
         [] name = "eye" -> CascadeTilted
         [] OTHER -> CascadeNoStage]

\* the loop of the constructor from entry k on: the cascades pushed, or the
\* error thrown
RECURSIVE pushFrom(_, _, _)
pushFrom(items, k, cs) ==
    IF k > Len(items) THEN [thrown |-> "", cs |-> cs]
    ELSE IF items[k].t # "string"
    THEN [thrown |-> "Object classifier should be a string.", cs |-> cs]
    ELSE IF items[k].s \notin DOMAIN detectClassifiers
    THEN [thrown |-> "Object classifier unknown", cs |-> cs]
    ELSE pushFrom(items, k + 1, Append(cs, detectClassifiers[items[k].s]))

\* the constructor: classifiers = [] by default; a falsy argument skips the
\* loop; a value that is not an array is wrapped
construct(arg) ==
    LET classifiers == IF arg.t = "undefined" THEN List(<<>>) ELSE arg
    IN IF ~Truthy(classifiers) THEN [thrown |-> "", cs |-> <<>>]
       ELSE pushFrom(IF classifiers.t = "array" THEN classifiers.items ELSE <<classifiers>>,
                     1, <<>>)

\* the field initialisers and setClassifiers(cs)
newTracker(cs) ==
    [classifiers |-> cs, edgesDensity |-> ParamsDefault.edgesDensity,
     initialScale |-> ParamsDefault.initialScale, scaleFactor |-> ParamsDefault.scaleFactor,
     stepSize |-> ParamsDefault.stepSize]

\* no tracker (the constructor has not run, or it threw)
NoTracker ==
    [classifiers |-> <<>>, edgesDensity |-> Q(0), initialScale |-> Q(0), scaleFactor |-> Q(0),
     stepSize |-> Q(0)]

\* ---- the calls the model makes
ConstructorArgs ==
    {Undefined, Str("face"), Str("nose"), Str(""), Num("0"), Num("7"),
     List(<<Str("eye"), Str("face")>>), List(<<Str("mouth"), Str("nose")>>),
     List(<<Str("face"), Num("0")>>), List(<<Str("")>>)}

EdgesDensities == {Q(0), <<1, 5>>}
InitialScales == {Q(1), <<5, 4>>}
ScaleFactors == {<<5, 4>>, <<3, 2>>}
StepSizes == {<<3, 2>>, Q(1)}
TrackFrames == {MkPixels(ImageCorner)}

\* detect(frame, Side, Side, initialScale, scaleFactor, stepSize, edgesDensity,
\* classifier) with regionsOverlap left to its default 0.5, for the calls
\* track can make
TrackDetect ==
    [c \in {Call(f, Side, Side, Params(is, sf, ss, ed), cl, <<1, 2>>) :
              f \in TrackFrames, is \in InitialScales, sf \in ScaleFactors, ss \in StepSizes,
              ed \in EdgesDensities, cl \in {detectClassifiers[n] : n \in DOMAIN detectClassifiers}} |->
       detect(c.pixels, c.width, c.height, c.initialScale, c.scaleFactor, c.stepSize,
              c.edgesDensity, c.data, c.regionsOverlap)]

InitTracker ==
    /\ IdleImage /\ IdleDS /\ IdleMerge /\ IdleDetect /\ IdleTracker /\ IdleFilter /\ IdleEvents

\* new ObjectTracker(arg)
New ==
    /\ tpc = "none"
    /\ \E arg \in ConstructorArgs :
         LET c == construct(arg)
         IN /\ argument' = arg
            /\ thrown' = c.thrown
            /\ IF c.thrown = "" THEN tracker' = newTracker(c.cs) /\ tpc' = "ready"
               ELSE tracker' = NoTracker /\ tpc' = "threw"
    /\ UNCHANGED <<varsEvents, varsFilter, emitted, tracked, varsImage, varsDS, varsMerge, varsDetect>>

SetEdgesDensity ==
    /\ tpc = "ready"
    /\ \E v \in EdgesDensities : tracker' = [tracker EXCEPT !.edgesDensity = v]
    /\ UNCHANGED <<varsEvents, varsFilter, tpc, thrown, argument, emitted, tracked, varsImage, varsDS, varsMerge, varsDetect>>

SetInitialScale ==
    /\ tpc = "ready"
    /\ \E v \in InitialScales : tracker' = [tracker EXCEPT !.initialScale = v]
    /\ UNCHANGED <<varsEvents, varsFilter, tpc, thrown, argument, emitted, tracked, varsImage, varsDS, varsMerge, varsDetect>>

SetScaleFactor ==
    /\ tpc = "ready"
    /\ \E v \in ScaleFactors : tracker' = [tracker EXCEPT !.scaleFactor = v]
    /\ UNCHANGED <<varsEvents, varsFilter, tpc, thrown, argument, emitted, tracked, varsImage, varsDS, varsMerge, varsDetect>>

SetStepSize ==
    /\ tpc = "ready"
    /\ \E v \in StepSizes : tracker' = [tracker EXCEPT !.stepSize = v]
    /\ UNCHANGED <<varsEvents, varsFilter, tpc, thrown, argument, emitted, tracked, varsImage, varsDS, varsMerge, varsDetect>>

\* the loop of track from classifier k on: results.push(...detect(...))
RECURSIVE resultsFrom(_, _, _, _)
resultsFrom(t, frame, k, results) ==
    IF k > Len(t.classifiers) THEN results
    ELSE resultsFrom(t, frame, k + 1,
                     results \o TrackDetect[Call(frame, Side, Side,
                                                 Params(t.initialScale, t.scaleFactor,
                                                        t.stepSize, t.edgesDensity),
                                                 t.classifiers[k], <<1, 2>>)])

\* a slip: nothing is emitted when nothing was found
emitTrackUnlessEmpty(log, results) ==
    IF results = <<>> THEN log ELSE Append(log, [event |-> "track", data |-> results])

\* this.emit('track', {data: results})
emitTrack(log, results) == Append(log, [event |-> "track", data |-> results])

\* track(pixels, width, height).  History: tracked keeps the frame and the
\* tracker of each call.
Track ==
    /\ tpc = "ready"
    /\ Len(tracked) < MaxTracks
    /\ \E frame \in TrackFrames :
         /\ emitted' = emitTrack(emitted, resultsFrom(tracker, frame, 1, <<>>))
         /\ tracked' = Append(tracked, [frame |-> frame, tracker |-> tracker])
    /\ UNCHANGED <<varsEvents, varsFilter, tracker, tpc, thrown, argument, varsImage, varsDS, varsMerge, varsDetect>>

NextTracker ==
    New \/ SetEdgesDensity \/ SetInitialScale \/ SetScaleFactor \/ SetStepSize \/ Track

SpecTracker == InitTracker /\ [][NextTracker]_vars

\* ---- quantities the claims about the tracker speak of
\* the results of detect on the frame for classifiers 1..n of tracker t, one
\* after the other
RECURSIVE Concatenation(_, _, _)
Concatenation(t, frame, n) ==
    IF n = 0 THEN <<>>
    ELSE Concatenation(t, frame, n - 1)
           \o TrackDetect[Call(frame, Side, Side,
                               Params(t.initialScale, t.scaleFactor, t.stepSize, t.edgesDensity),
                               t.classifiers[n], <<1, 2>>)]

Entries(arg) ==
    IF arg.t = "undefined" THEN <<>> ELSE IF arg.t = "array" THEN arg.items ELSE <<arg>>

BadEntry(e) == e.t # "string" \/ e.s \notin DOMAIN detectClassifiers

\* C8 as stated: the constructor throws and yields no tracker when an entry
\* is not a string or not a shipped name, and stores the named cascades in
\* the order given otherwise.  (The source skips its checks when the argument
\* is falsy: '' and 0 give a tracker without classifiers.)
C8_ConstructorThrows ==
    tpc # "none" =>
      LET entries == Entries(argument)
      IN IF \E k \in 1..Len(entries) : BadEntry(entries[k])
         THEN tpc = "threw" /\ tracker = NoTracker
         ELSE /\ tpc = "ready"
              /\ tracker.classifiers = [k \in 1..Len(entries) |-> detectClassifiers[entries[k].s]]

\* ------------------------------------------------------------ EventEmitter
\* The emitters, the task and the frame loop are objects of one heap; the
\* operators below take the heap as the record st and return it as the call
\* leaves it.
Heap ==
    [events |-> events_, nextId |-> nextId, calls |-> calls, emits |-> emits, onces |-> onces,
     running |-> running_, reemit |-> reemitTrackEvent_, timeout |-> timeout,
     timers |-> timers, frames |-> frames, ready |-> readyState, tracks |-> tracks]

\* function handlerInternal() {...}: the closure that once(event, listener) registers
handlerInternal(id, name) == [k |-> "once", n |-> id, f |-> name]

\* event => this.emit('track', event): the closure that run creates
reemitTrackEvent(id) == [k |-> "reemit", n |-> id, f |-> "emit"]

\* listeners.indexOf(listener), counted from 1; 0 when absent
RECURSIVE indexFrom(_, _, _)
indexFrom(arr, l, i) ==
    IF i > Len(arr) THEN 0 ELSE IF arr[i] = l THEN i ELSE indexFrom(arr, l, i + 1)

indexOf(arr, l) == indexFrom(arr, l, 1)

\* listeners.splice(i, 1)
splice(arr, i) == [k \in 1..(Len(arr) - 1) |-> IF k < i THEN arr[k] ELSE arr[k + 1]]

\* removeListener(event, listener)
removeListener(st, e, event, l) ==
    LET ls == st.events[e].of[event]
        i == indexOf(ls.arr, l)
    IN IF ~st.events[e].set \/ ~ls.has \/ i = 0 THEN st
       ELSE [st EXCEPT !.events[e].of[event].arr = splice(ls.arr, i)]

\* removeAllListeners(opt_event); "" stands for a call without argument
removeAllListeners(st, e, opt_event) ==
    IF ~st.events[e].set THEN st
    ELSE IF opt_event # "" THEN [st EXCEPT !.events[e].of[opt_event] = NoArray]
    ELSE [st EXCEPT !.events[e] = NoEvents]

RECURSIVE emit(_, _, _, _)
RECURSIVE emitLoop(_, _, _, _, _, _)
RECURSIVE apply(_, _, _, _, _)
RECURSIVE call(_, _, _, _, _)
RECURSIVE addListener(_, _, _, _)
RECURSIVE once(_, _, _, _)
RECURSIVE run(_)
RECURSIVE stop(_)
RECURSIVE raf(_)
RECURSIVE track(_)

\* emit(event, ...args).  `listeners` is the array itself, not a copy: the
\* loop reads its length and its element i anew in every iteration.
\* History: emits gets the call, the listeners at the call and running_.
emit(st, e, event, args) ==
    LET ls == st.events[e].of[event]
        s1 == [st EXCEPT !.emits = Append(@, [on |-> e, event |-> event, args |-> args,
                                              listeners |-> ls.arr, running |-> st.running])]
    IN IF ~(st.events[e].set /\ ls.has) THEN s1
       ELSE emitLoop(s1, e, event, args, 0, Len(s1.emits))

\* the for loop of emit from index i on.  History: calls gets the listener
\* and the number of the emit that calls it.
emitLoop(st, e, event, args, i, id) ==
    LET arr == st.events[e].of[event].arr
    IN IF i >= Len(arr) THEN st
       ELSE LET l == arr[i + 1]
                s1 == [st EXCEPT !.calls = Append(@, [emit |-> id, l |-> l, args |-> args])]
                s2 == apply(s1, l, e, event, args)
            IN IF s2 = s1 THEN emitLoop(s1, e, event, args, i + 1, id)
               ELSE emitLoop(s2, e, event, args, i + 1, id)

\* listeners[i].apply(this, args)
apply(st, l, e, event, args) ==
    CASE l.k = "once" ->
           \* self.removeListener(event, handlerInternal); listener.apply(this, arguments)
           call(removeListener(st, e, event, l), l.f, e, event, args)
      [] l.k = "reemit" -> emit(st, "task", "track", args)
      [] OTHER -> call(st, l.f, e, event, args)

\* the named functions the model registers as listeners
call(st, name, e, event, args) ==
    CASE name = "removeB" -> removeListener(st, e, "x", Fn("B"))
      [] name = "emitAgain" -> emit(st, e, "x", args)
      [] name = "raf" -> raf(st)
      [] name = "clearTimeout" -> [st EXCEPT !.timers = @ \ {st.timeout}]
      [] name = "setTimeout" ->
           [st EXCEPT !.timeout = st.nextId, !.timers = @ \cup {st.nextId}, !.nextId = @ + 1]
      [] name = "stopTask" -> stop(st)
      [] name = "runTask" -> run(st)
      [] OTHER -> st

\* addListener(event, listener), which is also `on`
addListener(st, e, event, l) ==
    LET s1 == [st EXCEPT !.events[e].set = TRUE]
        s2 == emit(s1, e, "newListener", <<event, l.f>>)
    IN [s2 EXCEPT !.events[e].of[event] = [has |-> TRUE, arr |-> Append(@.arr, l)]]

\* once(event, listener).  History: onces gets the handler and the number of
\* emit calls made before it was in the array.
once(st, e, event, name) ==
    LET l == handlerInternal(st.nextId, name)
        s1 == addListener([st EXCEPT !.nextId = @ + 1], e, event, l)
    IN [s1 EXCEPT !.onces = Append(@, [l |-> l, on |-> e, event |-> event, at |-> Len(s1.emits)])]

\* ------------------------------------------------------------- TrackerTask
\* run()
run(st) ==
    IF st.running THEN st
    ELSE LET l == reemitTrackEvent(st.nextId)
             s1 == [st EXCEPT !.running = TRUE, !.reemit = l, !.nextId = @ + 1]
             s2 == addListener(s1, "tracker", "track", l)
         IN emit(s2, "task", "run", <<>>)

\* a slip: `stop` is emitted before setRunning(false)
stopEmitsFirst(st) ==
    IF ~st.running THEN st
    ELSE LET s1 == emit(st, "task", "stop", <<>>)
         IN removeListener([s1 EXCEPT !.running = FALSE], "tracker", "track", s1.reemit)

\* stop()
stop(st) ==
    IF ~st.running THEN st
    ELSE LET s1 == emit([st EXCEPT !.running = FALSE], "task", "stop", <<>>)
         IN removeListener(s1, "tracker", "track", s1.reemit)

\* -------------------------------------------------------------- trackVideo
\* function raf() of trackVideo
raf(st) ==
    IF st.ready THEN track(once(st, "tracker", "track", "setTimeout"))
    ELSE [st EXCEPT !.frames = @ + 1]

\* tracker.track(pixels, width, height) of a tracker that emits `track`
\* before it returns, as ObjectTracker does.  History: tracks gets running_.
track(st) ==
    emit([st EXCEPT !.tracks = Append(@, [running |-> st.running])], "tracker", "track", <<"data">>)

\* the heap after a call
Becomes(st) ==
    /\ events_' = st.events /\ nextId' = st.nextId /\ calls' = st.calls /\ emits' = st.emits
    /\ onces' = st.onces /\ running_' = st.running /\ reemitTrackEvent_' = st.reemit
    /\ timeout' = st.timeout /\ timers' = st.timers /\ frames' = st.frames
    /\ readyState' = st.ready /\ tracks' = st.tracks

\* ---- an EventEmitter on its own
OnFns == {"A", "B", "removeB"}
OnceFns == {"A", "B", "emitAgain"}
Registrations == ({"x"} \X OnFns) \cup {<<"newListener", "A">>}

InitEmitter ==
    /\ events_ = [e \in Emitters |-> NoEvents] /\ nextId = 1
    /\ calls = <<>> /\ emits = <<>> /\ onces = <<>>
    /\ running_ = FALSE /\ reemitTrackEvent_ = NoListener
    /\ timeout = 0 /\ timers = {} /\ frames = 0 /\ readyState = FALSE /\ tracks = <<>>
    /\ epc = "emitter"
    /\ IdleImage /\ IdleDS /\ IdleMerge /\ IdleDetect /\ IdleTracker /\ IdleFilter

Others == <<varsImage, varsDS, varsMerge, varsDetect, varsTracker, varsFilter>>

\* emitter.on(event, f)
On ==
    /\ epc = "emitter"
    /\ Len(emits) < MaxEmits
    /\ \E r \in Registrations : Becomes(addListener(Heap, "emitter", r[1], Fn(r[2])))
    /\ UNCHANGED <<epc, Others>>

\* emitter.once('x', f)
Once ==
    /\ epc = "emitter"
    /\ Len(emits) < MaxEmits
    /\ \E f \in OnceFns : Becomes(once(Heap, "emitter", "x", f))
    /\ UNCHANGED <<epc, Others>>

\* emitter.removeListener('x', f)
RemoveListener ==
    /\ epc = "emitter"
    /\ \E f \in {"A", "B"} : Becomes(removeListener(Heap, "emitter", "x", Fn(f)))
    /\ UNCHANGED <<epc, Others>>

\* emitter.removeAllListeners('x') and emitter.removeAllListeners().
\* History: onces forgets the handlers the call removes.
RemoveAllListeners ==
    /\ epc = "emitter"
    /\ \E opt_event \in {"", "x"} :
         LET st == removeAllListeners(Heap, "emitter", opt_event)
         IN Becomes([st EXCEPT !.onces = SelectSeq(@, LAMBDA o : o.l \in
                                   {st.events[o.on].of[o.event].arr[k] :
                                      k \in 1..Len(st.events[o.on].of[o.event].arr)})])
    /\ UNCHANGED <<epc, Others>>

\* emitter.emit('x', 'a')
Emit ==
    /\ epc = "emitter"
    /\ Len(emits) < MaxEmits
    /\ Becomes(emit(Heap, "emitter", "x", <<"a">>))
    /\ UNCHANGED <<epc, Others>>

NextEmitter == On \/ Once \/ RemoveListener \/ RemoveAllListeners \/ Emit

SpecEmitter == InitEmitter /\ [][NextEmitter]_vars

\* ---- quantities the claims about the emitter speak of
\* the listeners that emit number id has called, in order
Ran(id) ==
    LET cs == SelectSeq(calls, LAMBDA c : c.emit = id)
    IN [k \in 1..Len(cs) |-> cs[k].l]

\* the listeners of an event now
Listening(e, event) ==
    {events_[e].of[event].arr[k] : k \in 1..Len(events_[e].of[event].arr)}

\* C15: every call of emit executes the listeners that were registered for
\* the event at the call, each exactly once, in the order of registration and
\* with the arguments of the call; whatever the mix of on and once, and also
\* when a listener removes itself or another one during the emit.
C15_EmitRunsEachListener ==
    \A id \in 1..Len(emits) :
      /\ Ran(id) = emits[id].listeners
      /\ \A c \in 1..Len(calls) : calls[c].emit = id => calls[c].args = emits[id].args

\* the calls of emit for the event of handler o made after o was registered
Later(o) == {id \in (o.at + 1)..Len(emits) : emits[id].on = o.on /\ emits[id].event = o.event}

\* C16: a listener added with once runs at most once over all emits, and it
\* runs in the first emit of its event after the registration, after which it
\* is no longer among the listeners of the event.
C16_OnceRunsOnNextEmit ==
    \A k \in 1..Len(onces) :
      LET o == onces[k]
          runs == {c \in 1..Len(calls) : calls[c].l = o.l}
      IN /\ Cardinality(runs) <= 1
         /\ Later(o) # {} =>
              /\ \E c \in runs : \A id \in Later(o) : calls[c].emit <= id
              /\ o.l \notin Listening(o.on, o.event)

\* ---- a TrackerTask on a tracker, and the frame loop of trackVideo
\* the calls of emit a behaviour may hold before its next call
EmitBound == IF epc = "task" THEN MaxTaskEmits ELSE MaxVideoEmits

\* task = new TrackerTask(tracker)
InitTask ==
    /\ events_ = [e \in Emitters |-> NoEvents] /\ nextId = 1
    /\ calls = <<>> /\ emits = <<>> /\ onces = <<>>
    /\ running_ = FALSE /\ reemitTrackEvent_ = NoListener
    /\ timeout = 0 /\ timers = {} /\ frames = 0 /\ readyState = FALSE /\ tracks = <<>>
    /\ epc = "task"
    /\ IdleImage /\ IdleDS /\ IdleMerge /\ IdleDetect /\ IdleTracker /\ IdleFilter

\* task.once('run' or 'stop', () => task.run() or task.stop())
TaskOnce ==
    /\ epc = "task"
    /\ Len(emits) < EmitBound
    /\ Len(onces) < MaxTaskOnces
    /\ \E event \in {"run", "stop"}, f \in {"runTask", "stopTask"} :
         Becomes(once(Heap, "task", event, f))
    /\ UNCHANGED <<epc, Others>>

\* task.on('track', f), with f a listener that does nothing or one that
\* calls task.stop()
TaskOn ==
    /\ epc \in {"task", "video"}
    /\ Len(emits) < EmitBound
    /\ \E f \in {"A", "stopTask"} :
         /\ (epc = "task" => f = "A")
         /\ Becomes(addListener(Heap, "task", "track", Fn(f)))
    /\ UNCHANGED <<epc, Others>>

\* task.run()
Run ==
    /\ epc \in {"task", "video"}
    /\ Len(emits) < EmitBound
    /\ Becomes(run(Heap))
    /\ UNCHANGED <<epc, Others>>

\* task.stop()
Stop ==
    /\ epc \in {"task", "video"}
    /\ Len(emits) < EmitBound
    /\ Becomes(stop(Heap))
    /\ UNCHANGED <<epc, Others>>

\* the tracker emits `track`
TrackerEmit ==
    /\ epc = "task"
    /\ Len(emits) < EmitBound
    /\ Becomes(emit(Heap, "tracker", "track", <<"data">>))
    /\ UNCHANGED <<epc, Others>>

NextTask == TaskOnce \/ TaskOn \/ Run \/ Stop \/ TrackerEmit

SpecTask == InitTask /\ [][NextTask]_vars

\* the re-emit listeners of the task among the `track` listeners of the tracker
ReemitListeners ==
    {k \in 1..Len(events_["tracker"].of["track"].arr) :
       events_["tracker"].of["track"].arr[k].k = "reemit"}

\* C20: after any sequence of run() and stop() calls, calls from inside the
\* task's own `run` and `stop` listeners included, the tracker carries exactly
\* one re-emit listener of the task while the task is running and none while
\* it is stopped.
C20_OneReemitWhileRunning ==
    epc = "task" => Cardinality(ReemitListeners) = IF running_ THEN 1 ELSE 0

\* the `run` and `stop` events of the task, in the order of their emit calls
TaskEvents == SelectSeq(emits, LAMBDA m : m.on = "task" /\ m.event \in {"run", "stop"})

\* C23: a task starts stopped; run() on a running task and stop() on a
\* stopped one leave the whole heap as it is (flag, listeners, nothing
\* emitted); the `run` and `stop` events of the task alternate, the first
\* being `run`; at each of them the flag already has the value of the event
\* (true at `run`, false at `stop`), and after any calls the flag is that of
\* the last event, so each change of the flag has exactly one event.
C23_RunStopAlternate ==
    epc = "task" =>
      /\ running_ => run(Heap) = Heap
      /\ ~running_ => stop(Heap) = Heap
      /\ \A k \in 1..Len(TaskEvents) :
           /\ TaskEvents[k].event = IF k % 2 = 1 THEN "run" ELSE "stop"
           /\ TaskEvents[k].running = (TaskEvents[k].event = "run")
      /\ running_ = (Len(TaskEvents) % 2 = 1)

\* run, stop, run and stop have been emitted, one of them from inside a
\* listener of the task that called run() or stop()
C23_Witness ==
    /\ epc = "task"
    /\ Len(TaskEvents) >= 4
    /\ \E c \in 1..Len(calls) :
         /\ calls[c].l.k = "once" /\ calls[c].l.f \in {"runTask", "stopTask"}
         /\ \E id \in (calls[c].emit + 1)..Len(emits) :
              emits[id].on = "task" /\ emits[id].event \in {"run", "stop"}

\* ---- trackVideo
\* before track(element, tracker): the element has enough data or not
InitVideo ==
    /\ events_ = [e \in Emitters |-> NoEvents] /\ nextId = 1
    /\ calls = <<>> /\ emits = <<>> /\ onces = <<>>
    /\ running_ = FALSE /\ reemitTrackEvent_ = NoListener
    /\ timeout = 0 /\ timers = {} /\ frames = 0 /\ readyState \in BOOLEAN /\ tracks = <<>>
    /\ epc = "element"
    /\ IdleImage /\ IdleDS /\ IdleMerge /\ IdleDetect /\ IdleTracker /\ IdleFilter

\* tracker.on('track', f), a listener of the user, before or after track(...)
TrackerOn ==
    /\ epc \in {"element", "video"}
    /\ Len(emits) < EmitBound
    /\ Becomes(addListener(Heap, "tracker", "track", Fn("A")))
    /\ UNCHANGED <<epc, Others>>

\* trackVideo(element, tracker), lines 98..101
TrackVideo ==
    /\ epc = "element"
    /\ LET s1 == addListener(Heap, "task", "stop", Fn("clearTimeout"))
           s2 == addListener(s1, "task", "run", Fn("raf"))
       IN Becomes(run(s2))
    /\ epc' = "video"
    /\ UNCHANGED Others

\* a timer set by setTimeout(raf, 0) fires
TimerFires ==
    /\ epc = "video"
    /\ Len(emits) < EmitBound
    /\ \E id \in timers : Becomes(raf([Heap EXCEPT !.timers = @ \ {id}]))
    /\ UNCHANGED <<epc, Others>>

\* a callback of requestAnimationFrame(raf) runs
FrameFires ==
    /\ epc = "video"
    /\ Len(emits) < EmitBound
    /\ frames > 0
    /\ Becomes(raf([Heap EXCEPT !.frames = @ - 1]))
    /\ UNCHANGED <<epc, Others>>

\* the element gets enough data
Ready ==
    /\ epc = "video"
    /\ ~readyState
    /\ readyState' = TRUE
    /\ UNCHANGED <<events_, nextId, calls, emits, onces, running_, reemitTrackEvent_, timeout,
                   timers, frames, tracks, epc, Others>>

NextVideo == TrackerOn \/ TrackVideo \/ TaskOn \/ Run \/ Stop \/ TimerFires \/ FrameFires \/ Ready

SpecVideo == InitVideo /\ [][NextVideo]_vars

\* C19: once stop() has been called on the task of track(element, tracker),
\* tracker.track is not called and no timer or animation-frame callback of the
\* frame loop is pending, until run() is called again.
C19_StoppedLoopIsQuiet ==
    epc = "video" =>
      /\ \A k \in 1..Len(tracks) : tracks[k].running
      /\ ~running_ => (timers = {} /\ frames = 0)

============================================================================
